---- MODULE Spec2Model ----
(***************************************************************************)
(* Model of the agent-dispatch endpoint of meet-web: the /dispatch handler  *)
(* (functions/api/dispatch.ts, here src/unnamed/part_001) and the control-  *)
(* plane helpers it calls (src/src/server/livekit/dispatch.ts), running     *)
(* against an upstream that holds the dispatches and participants of one    *)
(* room.  A request is a process: every upstream call it awaits is one      *)
(* step, so that the upstream and other requests can move in between.       *)
(***************************************************************************)
EXTENDS Naturals, Sequences, FiniteSets

(***************************************************************************)
(* Strings.  A string is a tuple of one-character strings, so that trim,    *)
(* toLowerCase, toUpperCase and startsWith are computed, not assumed.       *)
(* undefined, null and '' are all falsy in every place the code reads an    *)
(* optional string; the model writes the three as the empty string.         *)
(***************************************************************************)
Lowers == <<"a", "b", "c", "d", "e", "f", "g", "h", "i", "j", "k", "l", "m",
            "n", "o", "p", "q", "r", "s", "t", "u", "v", "w", "x", "y", "z">>

Uppers == <<"A", "B", "C", "D", "E", "F", "G", "H", "I", "J", "K", "L", "M",
            "N", "O", "P", "Q", "R", "S", "T", "U", "V", "W", "X", "Y", "Z">>

ToLowerChar(c) ==
  IF \E i \in 1..Len(Uppers) : Uppers[i] = c
    THEN Lowers[CHOOSE i \in 1..Len(Uppers) : Uppers[i] = c]
    ELSE c

ToUpperChar(c) ==
  IF \E i \in 1..Len(Lowers) : Lowers[i] = c
    THEN Uppers[CHOOSE i \in 1..Len(Lowers) : Lowers[i] = c]
    ELSE c

ToLowerCase(s) == [i \in 1..Len(s) |-> ToLowerChar(s[i])]

ToUpperCase(s) == [i \in 1..Len(s) |-> ToUpperChar(s[i])]

RECURSIVE TrimStart(_)
TrimStart(s) == IF s # <<>> /\ Head(s) = " " THEN TrimStart(Tail(s)) ELSE s

RECURSIVE TrimEnd(_)
TrimEnd(s) ==
  IF s # <<>> /\ s[Len(s)] = " " THEN TrimEnd(SubSeq(s, 1, Len(s) - 1)) ELSE s

Trim(s) == TrimEnd(TrimStart(s))

StartsWith(s, p) == Len(s) >= Len(p) /\ SubSeq(s, 1, Len(p)) = p

(***************************************************************************)
(* The strings the model uses.                                              *)
(***************************************************************************)
\* The configured agent name, already trimmed by getConfiguredAgentName.
AgentName == <<"b", "o", "t">>

\* The agent name written with another letter case.
AgentNameUpper == <<"B", "o", "t">>

\* The name of another agent.
OtherAgent == <<"c", "a", "m">>

AGENT_PREFIX == <<"a", "g", "e", "n", "t", "-">>

\* A participant identity carrying the agent prefix, and a human's identity.
PrefixedIdentity == <<"a", "g", "e", "n", "t", "-", "x">>

HumanIdentity == <<"a", "n", "n">>

JS_PENDING == <<"J", "S", "_", "P", "E", "N", "D", "I", "N", "G">>

JS_RUNNING == <<"J", "S", "_", "R", "U", "N", "N", "I", "N", "G">>

JS_SUCCESS == <<"J", "S", "_", "S", "U", "C", "C", "E", "S", "S">>

JS_FAILED == <<"J", "S", "_", "F", "A", "I", "L", "E", "D">>

(***************************************************************************)
(* Values of unknown type, as they arrive in the upstream's JSON: absent,   *)
(* a number or a string.                                                    *)
(***************************************************************************)
Absent == [t |-> "none", n |-> 0, s |-> <<>>]

Num(k) == [t |-> "num", n |-> k, s |-> <<>>]

Str(x) == [t |-> "str", n |-> 0, s |-> x]

\* JavaScript's Boolean(v) for such a value.
Truthy(v) ==
  CASE v.t = "num" -> v.n # 0
    [] v.t = "str" -> v.s # <<>>
    [] OTHER -> FALSE

(***************************************************************************)
(* Job status and the activity predicate.                                   *)
(***************************************************************************)
JOB_STATUS_BY_NUMBER(k) ==
  CASE k = 0 -> JS_PENDING
    [] k = 1 -> JS_RUNNING
    [] k = 2 -> JS_SUCCESS
    [] k = 3 -> JS_FAILED
    [] OTHER -> <<>>

normalizeStatusStringsOnly(value) ==
  CASE value.t = "str" -> ToUpperCase(Trim(value.s))
    [] OTHER -> <<>>

normalizeStatusUntrimmed(value) ==
  CASE value.t = "str" -> ToUpperCase(value.s)
    [] value.t = "num" -> JOB_STATUS_BY_NUMBER(value.n)
    [] OTHER -> <<>>

\* null is written as the empty string: the callers only compare the result
\* with non-empty literals.
normalizeStatus(value) ==
  CASE value.t = "str" -> ToUpperCase(Trim(value.s))
    [] value.t = "num" -> JOB_STATUS_BY_NUMBER(value.n)
    [] OTHER -> <<>>

\* The time members of a job's state, none of them set.
NoTimes ==
  [updatedAt |-> Absent, updated_at |-> Absent, endedAt |-> Absent,
   ended_at |-> Absent, startedAt |-> Absent, started_at |-> Absent]

\* A job is its state record: status, error and the time members.
JobState(st, err, times) ==
  [status |-> st, error |-> err,
   updatedAt |-> times.updatedAt, updated_at |-> times.updated_at,
   endedAt |-> times.endedAt, ended_at |-> times.ended_at,
   startedAt |-> times.startedAt, started_at |-> times.started_at]

\* A job with a status only; a job without a state has status Absent.
Job(st) == JobState(st, Absent, NoTimes)

getJobs(dispatch) == dispatch.jobs

isActiveDispatchIgnoreDeleted(dispatch) ==
  LET jobs == getJobs(dispatch) IN
    /\ Len(jobs) # 0
    /\ \E i \in 1..Len(jobs) :
         LET status == normalizeStatus(jobs[i].status) IN
           status = JS_RUNNING \/ status = JS_PENDING

isActiveDispatch(dispatch) ==
  LET deleted == Truthy(dispatch.deletedAt)
      jobs == getJobs(dispatch)
  IN IF deleted THEN FALSE
     ELSE IF Len(jobs) = 0 THEN FALSE
     ELSE \E i \in 1..Len(jobs) :
            LET status == normalizeStatus(jobs[i].status) IN
              status = JS_RUNNING \/ status = JS_PENDING

normalizeAgentName(name) == ToLowerCase(Trim(name))


(***************************************************************************)
(* Sequence helpers: Array.prototype.filter and find.                       *)
(***************************************************************************)
FilterSeq(s, Keep(_)) == SelectSeq(s, Keep)

\* find: the first element satisfying the test, as a list of at most one
\* element (the empty list is undefined / null).
FindFirst(s, Test(_)) ==
  LET hits == SelectSeq(s, Test) IN IF hits = <<>> THEN <<>> ELSE <<Head(hits)>>

IdsOf(s) == {s[i].id : i \in 1..Len(s)}

(***************************************************************************)
(* The upstream and the requests.                                           *)
(*   dispatches    the room's dispatch records, in listing order; a record  *)
(*                 is [id, agentName, deletedAt, jobs], id 0 being a record *)
(*                 without id                                               *)
(*   participants  the identities connected to the room                     *)
(*   req           each request's position (pc) and local values            *)
(*   prev          what the request served before the current one did       *)
(*   orphans       DeleteDispatch calls still on their way to the upstream  *)
(*                 after the request that issued them has responded         *)
(*   faults        how many more of its answers the upstream may turn into  *)
(*                 "not found" or a server error                            *)
(***************************************************************************)
VARIABLES dispatches, participants, req, prev, orphans, faults

vars == <<dispatches, participants, req, prev, orphans, faults>>

Dispatch(id, name, deletedAt, jobs) ==
  [id |-> id, agentName |-> name, deletedAt |-> deletedAt, jobs |-> jobs]

\* An upstream answer: the HTTP status and, for an error, the body.
Answer(st, body) == [st |-> st, body |-> body]

ResOk(a) == a.st >= 200 /\ a.st <= 299

\* An upstream that answers every call it is sent with success.
Faithful == {Answer(200, <<>>)}

\* The answers of an upstream that may also fail: "not found" and a server
\* error, the latter with and without a body.
Answers ==
  Faithful \cup {Answer(404, <<>>), Answer(500, <<>>), Answer(500, <<"upstream error">>)}

\* The upstream gives answer a: a failure uses up one of its faults.
Answered(a) ==
  /\ a \in Faithful \/ faults > 0
  /\ faults' = IF a \in Faithful THEN faults ELSE faults - 1

\* errBody || `<op> failed with status <status>`
StatusText(st) ==
  CASE st = 404 -> "404"
    [] st = 500 -> "500"
    [] OTHER -> "200"

ErrorMessageRawBody(op, a) == a.body

ErrorMessage(op, a) ==
  IF a.body # <<>> THEN a.body ELSE <<op, " failed with status ", StatusText(a.st)>>

\* An upstream call a request has had answered: the operation, the dispatch
\* id it named (0 for none) and the answer's status and body.
Call(op, id, res) == [op |-> op, id |-> id, st |-> res.st, body |-> res.body]

(***************************************************************************)
(* Responses.  fields names the members the JSON body carries; a member     *)
(* that is not carried holds its default.  dispatch is a list of at most    *)
(* one record (empty for null).                                             *)
(***************************************************************************)
TextResponse(code, text) ==
  [code |-> code, fields |-> {}, text |-> text, active |-> FALSE,
   agentPresent |-> FALSE, dispatch |-> <<>>, total |-> 0, reused |-> FALSE,
   removed |-> 0, error |-> Absent, errorCode |-> Absent,
   errorDetail |-> Absent, status |-> <<>>]

JsonResponse(fields, active, agentPresent, dispatch, total, reused, removed) ==
  [code |-> 200, fields |-> fields, text |-> <<>>, active |-> active,
   agentPresent |-> agentPresent, dispatch |-> dispatch, total |-> total,
   reused |-> reused, removed |-> removed, error |-> Absent,
   errorCode |-> Absent, errorDetail |-> Absent, status |-> <<"ok">>]

StatusFields ==
  {"status", "active", "agentPresent", "dispatch", "total", "error",
   "errorCode", "errorDetail"}

ReuseFields == {"status", "dispatch", "active", "reused", "agentPresent"}

CreateFieldsWithReused ==
  {"status", "dispatch", "active", "reused", "agentPresent"}

CreateFields == {"status", "dispatch", "active", "agentPresent"}

ReleaseFields == {"status", "removed"}

(***************************************************************************)
(* The deployment's environment and an inbound request.  An optional        *)
(* string is Absent or Str(x); here undefined and '' are kept apart.        *)
(***************************************************************************)
NoEnv ==
  [LIVEKIT_API_KEY |-> Absent, LIVEKIT_API_SECRET |-> Absent,
   LIVEKIT_URL |-> Absent, LIVEKIT_AGENT_NAME |-> Absent,
   VOICE_AGENT_NAME |-> Absent, VITE_DEFAULT_ROOM |-> Absent,
   VOICE_AGENT_DEFAULT_ROOM |-> Absent, VITE_DEMO_ROOM |-> Absent,
   VOICE_AGENT_DEMO_ROOM |-> Absent]

\* method, content-type header, the query string's room and metadata, whether
\* the body parses as JSON, and the body's room and metadata members.
Request(method, contentType, queryRoom, queryMetadata, bodyJson, bodyRoom,
        bodyMetadata) ==
  [method |-> method, contentType |-> contentType, queryRoom |-> queryRoom,
   queryMetadata |-> queryMetadata, bodyJson |-> bodyJson,
   bodyRoom |-> bodyRoom, bodyMetadata |-> bodyMetadata]

NoRequest == Request("NONE", <<>>, Absent, Absent, FALSE, Absent, Absent)

\* a ?? b
Coalesce(a, b) == IF a.t = "none" THEN b ELSE a

\* s.includes(sub)
Includes(s, sub) ==
  \E i \in 0..(Len(s) - Len(sub)) : SubSeq(s, i + 1, i + Len(sub)) = sub

APPLICATION_JSON ==
  <<"a", "p", "p", "l", "i", "c", "a", "t", "i", "o", "n", "/", "j", "s", "o", "n">>

DEMO_ROOM == <<"d", "e", "m", "o", "-", "r", "o", "o", "m">>

EMPTY_OBJECT == <<"{", "}">>

NULL_TEXT == <<"n", "u", "l", "l">>

\* room?.trim() ?? ''
normalizeRoom(room) == IF room.t = "str" THEN Trim(room.s) ELSE <<>>

\* The metadata texts of the model are written with one element for the key
\* "gemini_api_key" (with its quotes) and one for a whole JSON value.
GEMINI_KEY == "\"gemini_api_key\""

\* The value of a JSON string literal; a list of at most one string.
JsonStringValue(token) ==
  CASE token = "\"tok\"" -> << <<"t", "o", "k">> >>
    [] token = "\" \"" -> << <<" ">> >>
    [] OTHER -> <<>>

\* JSON.parse of a text, as far as parseDispatchMetadata looks at it: an
\* object (with the gemini_api_key member it holds, if any), or nothing (a
\* non-object value, or a text that does not parse).
JsonParseObject(text) ==
  IF text = EMPTY_OBJECT THEN <<[gemini_api_key |-> Absent]>>
  ELSE IF Len(text) = 5 /\ text[1] = "{" /\ text[2] = GEMINI_KEY /\ text[3] = ":"
          /\ text[5] = "}" /\ text[4] \in {"\"tok\"", "\" \"", "7"}
    THEN <<[gemini_api_key |->
              IF JsonStringValue(text[4]) # <<>>
                THEN Str(JsonStringValue(text[4])[1]) ELSE Num(7)]>>
  ELSE <<>>

\* The parsed object as a list of at most one record (empty for null).
parseDispatchMetadata(raw) ==
  IF ~Truthy(raw) \/ raw.t # "str" THEN <<>> ELSE JsonParseObject(raw.s)

extractGeminiTokenUntrimmed(metadata) ==
  IF metadata # <<>> /\ metadata[1].gemini_api_key.t = "str"
    THEN metadata[1].gemini_api_key.s
    ELSE <<>>

extractGeminiToken(metadata) ==
  IF metadata # <<>> /\ metadata[1].gemini_api_key.t = "str"
    THEN Trim(metadata[1].gemini_api_key.s)
    ELSE <<>>

getTokenlessRooms(env) ==
  [defaultRoom |-> normalizeRoom(Coalesce(env.VITE_DEFAULT_ROOM,
                                          env.VOICE_AGENT_DEFAULT_ROOM)),
   demoRoom |-> normalizeRoom(Coalesce(env.VITE_DEMO_ROOM,
                                       env.VOICE_AGENT_DEMO_ROOM))]

isTokenOptionalRoomDemoOnly(env, room) ==
  LET normalizedRoom == normalizeRoom(room)
      rooms == getTokenlessRooms(env)
  IN IF normalizedRoom = <<>> THEN FALSE
     ELSE IF rooms.demoRoom # <<>> /\ normalizedRoom = rooms.demoRoom THEN TRUE
     ELSE normalizedRoom = DEMO_ROOM

isTokenOptionalRoom(env, room) ==
  LET normalizedRoom == normalizeRoom(room)
      rooms == getTokenlessRooms(env)
  IN IF normalizedRoom = <<>> THEN FALSE
     ELSE IF rooms.defaultRoom # <<>> /\ normalizedRoom = rooms.defaultRoom THEN TRUE
     ELSE IF rooms.demoRoom # <<>> /\ normalizedRoom = rooms.demoRoom THEN TRUE
     ELSE normalizedRoom = DEMO_ROOM

cleanMetadataUntrimmed(rawMetadata) ==
  IF rawMetadata.t = "str" /\ Trim(rawMetadata.s) # <<>> THEN rawMetadata ELSE Absent

\* rawMetadata && rawMetadata.trim() && ... !== '{}' && ... !== 'null'
\*   ? rawMetadata.trim() : undefined
cleanMetadata(rawMetadata) ==
  IF /\ rawMetadata.t = "str" /\ Truthy(rawMetadata)
     /\ Trim(rawMetadata.s) # <<>>
     /\ Trim(rawMetadata.s) # EMPTY_OBJECT
     /\ Trim(rawMetadata.s) # NULL_TEXT
    THEN Str(Trim(rawMetadata.s))
    ELSE Absent

Payload(room, metadata) == [room |-> room, metadata |-> metadata]

readPayloadQueryFallback(request) ==
  IF request.method \in {"GET", "HEAD", "DELETE"}
    THEN Payload(request.queryRoom, cleanMetadata(request.queryMetadata))
  ELSE IF ~Includes(request.contentType, APPLICATION_JSON) \/ ~request.bodyJson
    THEN Payload(request.queryRoom, Absent)
  ELSE Payload(request.bodyRoom,
               cleanMetadata(IF request.bodyMetadata.t = "str"
                               THEN request.bodyMetadata ELSE Absent))

readPayload(request) ==
  IF request.method \in {"GET", "HEAD", "DELETE"}
    THEN Payload(request.queryRoom, cleanMetadata(request.queryMetadata))
  ELSE IF ~Includes(request.contentType, APPLICATION_JSON)
    THEN Payload(Absent, Absent)
  ELSE IF ~request.bodyJson THEN Payload(Absent, Absent)
  ELSE Payload(request.bodyRoom,
               cleanMetadata(IF request.bodyMetadata.t = "str"
                               THEN request.bodyMetadata ELSE Absent))

\* The configured agent name, as a list of at most one string.
getConfiguredAgentName(env) ==
  LET candidate == Coalesce(env.LIVEKIT_AGENT_NAME, env.VOICE_AGENT_NAME) IN
    IF Truthy(candidate) /\ Trim(candidate.s) # <<>>
      THEN <<Trim(candidate.s)>> ELSE <<>>

assertEnvConfiguredKeysOnly(env) ==
  IF ~Truthy(env.LIVEKIT_API_KEY) \/ ~Truthy(env.LIVEKIT_API_SECRET)
     \/ ~Truthy(env.LIVEKIT_URL)
    THEN <<"LiveKit environment not configured">>
  ELSE <<>>

\* The message of the error assertEnvConfigured throws; empty for none.
assertEnvConfigured(env) ==
  IF ~Truthy(env.LIVEKIT_API_KEY) \/ ~Truthy(env.LIVEKIT_API_SECRET)
     \/ ~Truthy(env.LIVEKIT_URL)
    THEN <<"LiveKit environment not configured">>
  ELSE IF getConfiguredAgentName(env) = <<>>
    THEN <<"Missing LIVEKIT_AGENT_NAME">>
  ELSE <<>>

(***************************************************************************)
(* The error of a failed job.  A job's time is the first of its time        *)
(* members that resolves to a number: a number as it is, a string by        *)
(* Number() and then by Date.parse().  NaN is written as the empty list.    *)
(***************************************************************************)
Digits == <<"0", "1", "2", "3", "4", "5", "6", "7", "8", "9">>

IsDigit(c) == \E i \in 1..Len(Digits) : Digits[i] = c

DigitValue(c) == (CHOOSE i \in 1..Len(Digits) : Digits[i] = c) - 1

RECURSIVE DecimalValue(_)
DecimalValue(s) ==
  IF s = <<>> THEN 0
  ELSE DecimalValue(SubSeq(s, 1, Len(s) - 1)) * 10 + DigitValue(s[Len(s)])

\* Number(text) for the texts of the model: blank is 0, decimal digits are
\* their value, anything else is NaN.
NumberOfTrimmed(t) ==
  IF t = <<>> THEN <<0>>
  ELSE IF \A i \in 1..Len(t) : IsDigit(t[i]) THEN <<DecimalValue(t)>>
  ELSE <<>>

ToNumber(text) == NumberOfTrimmed(Trim(text))

\* The dates of the model lie in the first ten seconds of 1970; such a date
\* is written with one element for all that comes before the last digit of
\* its seconds.
EPOCH_PREFIX == "1970-01-01T00:00:0"

\* Date.parse(text): milliseconds since the epoch, NaN for no date.
DateParse(text) ==
  IF Len(text) = 3 /\ text[1] = EPOCH_PREFIX /\ IsDigit(text[2]) /\ text[3] = "Z"
    THEN <<DigitValue(text[2]) * 1000>>
  ELSE <<>>

\* numeric if it is a finite number, else iso if that is one.
NumericOrIso(numeric, iso) == IF numeric # <<>> THEN numeric ELSE iso

\* What one candidate of pickTimestamp resolves to; empty for none.
ResolveCandidate(candidate) ==
  CASE candidate.t = "num" -> <<candidate.n>>
    [] candidate.t = "str" ->
         NumericOrIso(ToNumber(candidate.s), DateParse(candidate.s))
    [] OTHER -> <<>>

\* The first of the resolved candidates that is a number, 0 for none.
FirstResolved(resolved) ==
  IF \A i \in 1..Len(resolved) : resolved[i] = <<>> THEN 0
  ELSE resolved[CHOOSE i \in 1..Len(resolved) :
                  /\ resolved[i] # <<>>
                  /\ \A j \in 1..(i - 1) : resolved[j] = <<>>][1]

pickTimestamp(state) ==
  FirstResolved(
    [i \in 1..6 |->
       ResolveCandidate(<<state.updatedAt, state.updated_at, state.endedAt,
                          state.ended_at, state.startedAt, state.started_at>>[i])])

DEFAULT_ERROR_CODE == <<"dispatch_failed">>

INVALID_API_KEY == <<"invalid_api_key">>

PERMISSION_DENIED == <<"permission_denied">>

API_KEY_NOT_VALID == <<"a", "p", "i", " ", "k", "e", "y", " ", "n", "o", "t", " ", "v", "a", "l", "i", "d">>

NOT_ENTITLED == <<"n", "o", "t", " ", "e", "n", "t", "i", "t", "l", "e", "d">>

PERMISSION == <<"p", "e", "r", "m", "i", "s", "s", "i", "o", "n">>

deriveErrorCodeCaseSensitive(detail) ==
  IF ~Truthy(detail) THEN DEFAULT_ERROR_CODE
  ELSE LET normalized == detail.s IN
    IF Includes(normalized, API_KEY_NOT_VALID) THEN INVALID_API_KEY
    ELSE IF Includes(normalized, NOT_ENTITLED) \/ Includes(normalized, PERMISSION)
      THEN PERMISSION_DENIED
    ELSE DEFAULT_ERROR_CODE

deriveErrorCode(detail) ==
  IF ~Truthy(detail) THEN DEFAULT_ERROR_CODE
  ELSE LET normalized == ToLowerCase(detail.s) IN
    IF Includes(normalized, API_KEY_NOT_VALID) THEN INVALID_API_KEY
    ELSE IF Includes(normalized, NOT_ENTITLED) \/ Includes(normalized, PERMISSION)
      THEN PERMISSION_DENIED
    ELSE DEFAULT_ERROR_CODE

\* The user messages, each written as one element (the code's are
\* Ukrainian sentences).
INVALID_KEY_MESSAGE == <<"Wrong LLM token. Check the settings and try again.">>

PERMISSION_MESSAGE == <<"No permission to use this LLM. Ask the administrator.">>

FALLBACK_MESSAGE == <<"Could not start the AI assistant. Try again later.">>

buildUserMessage(code, detail) ==
  CASE code = INVALID_API_KEY -> INVALID_KEY_MESSAGE
    [] code = PERMISSION_DENIED -> PERMISSION_MESSAGE
    [] OTHER -> IF Truthy(detail)
                  THEN FALLBACK_MESSAGE \o <<" ", "(">> \o detail.s \o <<")">>
                  ELSE FALLBACK_MESSAGE

\* dispatches.flatMap((dispatch) => getJobs(dispatch))
RECURSIVE FlatMapJobs(_)
FlatMapJobs(ds) ==
  IF ds = <<>> THEN <<>> ELSE getJobs(Head(ds)) \o FlatMapJobs(Tail(ds))

\* [...jobs].sort by time, latest first, jobs of equal time in their listing
\* order (the sort is stable): the positions of the jobs in sorted order,
\* from their times.  Jobs are handled by their position, since two jobs of
\* equal content are two jobs.
SortedByTimestamp(times) ==
  [p \in 1..Len(times) |->
     CHOOSE k \in 1..Len(times) :
       p = 1 + Cardinality({m \in 1..Len(times) :
                              \/ times[m] > times[k]
                              \/ times[m] = times[k] /\ m < k})]

\* sorted.find(FAILED): the position of the job, as a list of at most one.
FindFailed(jobs, sorted) ==
  FindFirst(sorted, LAMBDA k : normalizeStatus(jobs[k].status) = JS_FAILED)

newerActiveJobExistsStrictly(jobs, times, failed) ==
  \E k \in 1..Len(jobs) :
    /\ k # failed
    /\ normalizeStatus(jobs[k].status) \in {JS_RUNNING, JS_PENDING}
    /\ times[k] > times[failed]

newerActiveJobExists(jobs, times, failed) ==
  \E k \in 1..Len(jobs) :
    /\ k # failed
    /\ normalizeStatus(jobs[k].status) \in {JS_RUNNING, JS_PENDING}
    /\ times[k] >= times[failed]

\* typeof detailRaw === 'string' && detailRaw.trim() ? detailRaw.trim() : null
TrimmedDetail(detailRaw) ==
  IF detailRaw.t = "str" /\ Trim(detailRaw.s) # <<>>
    THEN Str(Trim(detailRaw.s)) ELSE Absent

DispatchErrorInfo(code, detail) ==
  [code |-> code, message |-> buildUserMessage(code, detail), detail |-> detail]

ErrorOfDetail(detail) == DispatchErrorInfo(deriveErrorCode(detail), detail)

ErrorOfFailed(jobs, times, failed) ==
  IF failed = <<>> THEN <<>>
  ELSE IF newerActiveJobExists(jobs, times, failed[1]) THEN <<>>
  ELSE <<ErrorOfDetail(TrimmedDetail(jobs[failed[1]].error))>>

ErrorOfJobs(jobs, times) ==
  IF jobs = <<>> THEN <<>>
  ELSE ErrorOfFailed(jobs, times, FindFailed(jobs, SortedByTimestamp(times)))

TimesOf(jobs) == [k \in 1..Len(jobs) |-> pickTimestamp(jobs[k])]

ErrorAmongJobs(jobs) == ErrorOfJobs(jobs, TimesOf(jobs))

\* The error status reports; a list of at most one DispatchErrorInfo.
extractDispatchError(dispatches_) == ErrorAmongJobs(FlatMapJobs(dispatches_))

(***************************************************************************)
(* A request's local values.                                                *)
(***************************************************************************)
IdleRequest ==
  [pc |-> "idle", method |-> "NONE", allDispatches |-> <<>>, ours |-> <<>>,
   agentPresent |-> FALSE, existing |-> <<>>, matches |-> <<>>,
   inflight |-> {}, kicks |-> {}, calls |-> <<>>, resp |-> <<>>,
   startEmpty |-> FALSE, env |-> NoEnv, request |-> NoRequest,
   metadata |-> Absent, signed |-> FALSE, sent |-> <<>>, participants |-> {}]

NoPrev ==
  [method |-> "NONE", code |-> 0, created |-> <<>>, startEmpty |-> FALSE,
   removed |-> 0]

Done(r) == req[r].pc = "done"

Response(r) == req[r].resp[1]

\* The calls of one kind a request has had answered.
CallsOf(r, op) == FilterSeq(req[r].calls, LAMBDA c : c.op = op)


(***************************************************************************)
(* Bounds.                                                                  *)
(***************************************************************************)
\* The most dispatch records a room starts with.
MaxInitDispatches == 3

\* The most dispatch records the upstream accepts in one room.
MaxDispatches == 4

\* The most jobs of a dispatch whose activity is examined.
MaxJobs == 2

\* The most answers the upstream turns into "not found" or a server error.
MaxFaults == 2

(***************************************************************************)
(* The upstream's side of the control API.                                  *)
(***************************************************************************)
HasId(ds, id) == \E i \in 1..Len(ds) : ds[i].id = id

WithoutId(ds, id) == SelectSeq(ds, LAMBDA d : d.id # id)

\* Every dispatch id something still refers to.
UsedIds ==
  IdsOf(dispatches) \cup orphans \cup IdsOf(prev.created)
    \cup UNION {IdsOf(req[r].allDispatches) \cup IdsOf(req[r].existing)
                  \cup UNION {IdsOf(req[r].resp[i].dispatch) :
                               i \in 1..Len(req[r].resp)}
                  \cup req[r].inflight
                  \cup {req[r].calls[i].id : i \in 1..Len(req[r].calls)} :
                r \in DOMAIN req}

\* The id the upstream gives the next dispatch: one nothing refers to.
FreshId ==
  CHOOSE i \in 1..(Cardinality(UsedIds) + 1) :
    i \notin UsedIds /\ \A j \in 1..(i - 1) : j \in UsedIds

\* A value returned, or an error thrown, by a helper.
Return(v) == [threw |-> FALSE, value |-> v, error |-> <<>>]

Throw(msg) == [threw |-> TRUE, value |-> <<>>, error |-> msg]

listDispatchesThrowOn404(a) ==
  IF ~ResOk(a) THEN Throw(ErrorMessage("ListDispatch", a)) ELSE Return(dispatches)

listDispatches(a) ==
  IF ~ResOk(a) /\ a.st # 404 THEN Throw(ErrorMessage("ListDispatch", a))
  ELSE IF ~ResOk(a) THEN Return(<<>>)
  ELSE Return(dispatches)

listAgentDispatches(a, agentName) ==
  LET all == listDispatches(a)
      normalized == normalizeAgentName(agentName)
  IN IF all.threw THEN all
     ELSE Return(FilterSeq(all.value,
                           LAMBDA d : normalizeAgentName(d.agentName) = normalized))

listParticipants(a) ==
  IF ~ResOk(a) /\ a.st # 404 THEN Throw(ErrorMessage("ListParticipants", a))
  ELSE IF ~ResOk(a) THEN [threw |-> FALSE, value |-> {}, error |-> <<>>]
  ELSE [threw |-> FALSE, value |-> participants, error |-> <<>>]

\* The status the upstream gives a DeleteDispatch it handles: "not found"
\* for a dispatch it does not hold.
DeleteStatus(a, id) ==
  IF ResOk(a) /\ ~HasId(dispatches, id) THEN 404 ELSE a.st

deleteAgentDispatchThrowOn404(a, id) ==
  LET res == Answer(DeleteStatus(a, id), a.body) IN
    IF ~ResOk(res) THEN Throw(ErrorMessage("DeleteDispatch", res)) ELSE Return(<<>>)

deleteAgentDispatch(a, id) ==
  LET res == Answer(DeleteStatus(a, id), a.body) IN
    IF ~ResOk(res) /\ res.st # 404
      THEN Throw(ErrorMessage("DeleteDispatch", res))
      ELSE Return(<<>>)

\* The body of the CreateDispatch request: JSON.stringify leaves a member
\* out when its value is undefined.
CreateBody(room, agentName, metadata) ==
  [fields |-> {"room", "agentName"}
                \cup (IF metadata.t = "none" THEN {} ELSE {"metadata"}),
   room |-> room, agentName |-> agentName, metadata |-> metadata]

createAgentDispatchSingleFlight(a, agentName) ==
  LET held == SelectSeq(dispatches, LAMBDA d : d.agentName = agentName /\ d.id # 0) IN
    IF ~ResOk(a) THEN Throw(ErrorMessage("CreateDispatch", a))
    ELSE IF held # <<>> THEN Return(<<Head(held)>>)
    ELSE Return(<<Dispatch(FreshId, agentName, Absent, <<>>)>>)

createAgentDispatch(a, agentName) ==
  IF ~ResOk(a) THEN Throw(ErrorMessage("CreateDispatch", a))
  ELSE Return(<<Dispatch(FreshId, agentName, Absent, <<>>)>>)

\* The agent test of the status and ensure-active handlers.
IsAgentParticipant(p, agentName) ==
  LET identity == Trim(p) IN
    identity = agentName \/ StartsWith(identity, AGENT_PREFIX)

\* The agent test of release.
IsAgentParticipantRelease(p, agentName) ==
  LET id == Trim(p)
      lowerId == ToLowerCase(id)
  IN lowerId = normalizeAgentName(agentName) \/ StartsWith(lowerId, AGENT_PREFIX)

(***************************************************************************)
(* The handler, one step per awaited upstream call.  a is the upstream's    *)
(* answer to the call.                                                      *)
(***************************************************************************)
Upd(r, rec) == req' = [req EXCEPT ![r] = rec]

Logged(r, op, id, res) == [req[r] EXCEPT !.calls = Append(@, Call(op, id, res))]

\* The handler's catch: 502 with the error's message.
Caught(rec, msg) ==
  [rec EXCEPT !.pc = "done", !.resp = <<TextResponse(502, msg)>>,
              !.inflight = {}, !.kicks = {}]

Responded(rec, response) == [rec EXCEPT !.pc = "done", !.resp = <<response>>]

Summary(r) ==
  [method |-> req[r].method, code |-> Response(r).code,
   created |-> IF Len(CallsOf(r, "CreateDispatch")) # 0 /\ Response(r).code = 200
                 THEN Response(r).dispatch ELSE <<>>,
   startEmpty |-> req[r].startEmpty, removed |-> Response(r).removed]

Methods == {"GET", "POST", "DELETE"}

\* The room of the model, and the values that configure the deployment for
\* it: the room is the default room, for which no LLM token is asked.
RoomName == <<"a", "b", "c">>

ConfiguredEnv ==
  [NoEnv EXCEPT !.LIVEKIT_API_KEY = Str(<<"k">>),
                !.LIVEKIT_API_SECRET = Str(<<"s">>),
                !.LIVEKIT_URL = Str(<<"w", "s", "s", ":", "/", "/", "h">>),
                !.LIVEKIT_AGENT_NAME = Str(AgentName),
                !.VITE_DEFAULT_ROOM = Str(RoomName)]

\* A request of method m that names the room and nothing else.
RoomRequest(m) ==
  IF m = "POST"
    THEN Request(m, APPLICATION_JSON, Absent, Absent, TRUE, Str(RoomName), Absent)
    ELSE Request(m, <<>>, Str(RoomName), Absent, FALSE, Absent, Absent)

METHOD_NOT_ALLOWED == <<"Method Not Allowed">>

MISSING_ROOM == <<"Missing required room parameter">>

\* The text of the 400 that asks for an LLM token (in Ukrainian in the code).
TOKEN_REQUIRED == <<"LLM token is required for this room">>

\* A request arrives: method, configuration, room and (POST) token are
\* examined, and the admin credentials are signed (buildDispatchContext)
\* before the first upstream call.
Receive(r, env, request) ==
  LET method == request.method
      configError == assertEnvConfigured(env)
      payload == readPayload(request)
      parsedMetadata == parseDispatchMetadata(payload.metadata)
      geminiApiKey == extractGeminiToken(parsedMetadata)
      tokenOptionalRoom == isTokenOptionalRoom(env, payload.room)
      rec == [IdleRequest EXCEPT
                !.method = method, !.env = env, !.request = request,
                !.startEmpty =
                  /\ dispatches = <<>>
                  /\ ~\E p \in participants :
                        \/ IsAgentParticipant(p, AgentName)
                        \/ IsAgentParticipantRelease(p, AgentName)]
  IN /\ req[r].pc \in {"idle", "done"}
     /\ prev' = IF Done(r) THEN Summary(r) ELSE prev
     /\ Upd(r, IF method \notin Methods
                 THEN Responded(rec, TextResponse(405, METHOD_NOT_ALLOWED))
               ELSE IF configError # <<>>
                 THEN Responded(rec, TextResponse(500, configError))
               ELSE IF ~Truthy(payload.room)
                 THEN Responded(rec, TextResponse(400, MISSING_ROOM))
               ELSE IF method = "POST" /\ ~tokenOptionalRoom /\ geminiApiKey = <<>>
                 THEN Responded(rec, TextResponse(400, TOKEN_REQUIRED))
               ELSE [rec EXCEPT !.pc = "ListDispatch",
                                !.metadata = payload.metadata,
                                !.signed = TRUE])
     /\ UNCHANGED <<dispatches, participants, orphans, faults>>

\* A request arrives (configuration complete, room given).
Start(r, m) == Receive(r, ConfiguredEnv, RoomRequest(m))

StatusListDispatchEvicting(r, a) ==
  LET res == listDispatches(a)
      rec == Logged(r, "ListDispatch", 0, a)
  IN /\ req[r].method = "GET" /\ req[r].pc = "ListDispatch"
     /\ Upd(r, IF res.threw THEN Caught(rec, res.error)
               ELSE [rec EXCEPT
                       !.pc = "ListParticipants",
                       !.allDispatches = res.value,
                       !.ours = FilterSeq(res.value,
                                          LAMBDA d : d.agentName = AgentName)])
     /\ Answered(a)
     /\ dispatches' = FilterSeq(dispatches, LAMBDA d : d.agentName = AgentName)
     /\ UNCHANGED <<participants, prev, orphans>>

\* GET: const allDispatches = await listDispatches(context, room)
StatusListDispatch(r, a) ==
  LET res == listDispatches(a)
      rec == Logged(r, "ListDispatch", 0, a)
  IN /\ req[r].method = "GET" /\ req[r].pc = "ListDispatch"
     /\ Upd(r, IF res.threw THEN Caught(rec, res.error)
               ELSE [rec EXCEPT
                       !.pc = "ListParticipants",
                       !.allDispatches = res.value,
                       !.ours = FilterSeq(res.value,
                                          LAMBDA d : d.agentName = AgentName)])
     /\ Answered(a)
     /\ UNCHANGED <<dispatches, participants, prev, orphans>>

WithErrorCodeOnly(response, dispatchError) ==
  IF dispatchError = <<>> THEN response
  ELSE [response EXCEPT !.errorCode = Str(dispatchError[1].code),
                        !.errorDetail = dispatchError[1].detail]

\* error: dispatchError?.message ?? null, errorCode: dispatchError?.code ??
\* null, errorDetail: dispatchError?.detail ?? null
WithError(response, dispatchError) ==
  IF dispatchError = <<>> THEN response
  ELSE [response EXCEPT !.error = Str(dispatchError[1].message),
                        !.errorCode = Str(dispatchError[1].code),
                        !.errorDetail = dispatchError[1].detail]

\* GET: const participants = await listParticipants(context, room); respond
StatusListParticipants(r, a) ==
  LET res == listParticipants(a)
      rec == [Logged(r, "ListParticipants", 0, a)
                EXCEPT !.participants = IF res.threw THEN {} ELSE res.value]
      active == FindFirst(req[r].ours, isActiveDispatch)
      agentPresent == \E p \in res.value : IsAgentParticipant(p, AgentName)
  IN /\ req[r].method = "GET" /\ req[r].pc = "ListParticipants"
     /\ Upd(r, IF res.threw THEN Caught(rec, res.error)
               ELSE Responded([rec EXCEPT !.agentPresent = agentPresent],
                              WithError(
                                JsonResponse(StatusFields, active # <<>>,
                                             agentPresent, active,
                                             Len(req[r].ours), FALSE, 0),
                                extractDispatchError(req[r].ours))))
     /\ Answered(a)
     /\ UNCHANGED <<dispatches, participants, prev, orphans>>


\* POST: const allDispatches = await listDispatches(context, room)
EnsureListDispatch(r, a) ==
  LET res == listDispatches(a)
      rec == Logged(r, "ListDispatch", 0, a)
  IN /\ req[r].method = "POST" /\ req[r].pc = "ListDispatch"
     /\ Upd(r, IF res.threw THEN Caught(rec, res.error)
               ELSE [rec EXCEPT !.pc = "ListParticipants",
                                !.allDispatches = res.value])
     /\ Answered(a)
     /\ UNCHANGED <<dispatches, participants, prev, orphans>>

ForeignDispatchesNone(all, agentName) == <<>>

\* The dispatches ensure-active deletes as another agent's.
ForeignDispatches(all, agentName) ==
  FilterSeq(all, LAMBDA d : d.agentName # <<>> /\ d.agentName # agentName /\ d.id # 0)

\* POST: const participants = await listParticipants(context, room); then the
\* deletes of the other agents' dispatches are all issued (Promise.all).
EnsureListParticipants(r, a) ==
  LET res == listParticipants(a)
      rec == [Logged(r, "ListParticipants", 0, a)
                EXCEPT !.participants = IF res.threw THEN {} ELSE res.value]
      agentPresent == \E p \in res.value : IsAgentParticipant(p, AgentName)
  IN /\ req[r].method = "POST" /\ req[r].pc = "ListParticipants"
     /\ Upd(r, IF res.threw THEN Caught(rec, res.error)
               ELSE [rec EXCEPT
                       !.pc = "DeleteForeign",
                       !.agentPresent = agentPresent,
                       !.inflight =
                         IdsOf(ForeignDispatches(req[r].allDispatches, AgentName))])
     /\ Answered(a)
     /\ UNCHANGED <<dispatches, participants, prev, orphans>>

\* The upstream handles one of the DeleteDispatch calls a request awaits.  A
\* failed one rejects the Promise.all: the handler responds while the other
\* deletes it issued are still on their way.
DeleteAnswered(r, id, a) ==
  LET res == deleteAgentDispatch(a, id)
      rec == Logged(r, "DeleteDispatch", id, Answer(DeleteStatus(a, id), a.body))
  IN /\ req[r].pc \in {"DeleteForeign", "DeleteStale", "DeleteDispatch"}
     /\ id \in req[r].inflight
     /\ dispatches' = IF ResOk(a) THEN WithoutId(dispatches, id) ELSE dispatches
     /\ Upd(r, IF res.threw THEN Caught(rec, res.error)
               ELSE [rec EXCEPT !.inflight = @ \ {id}])
     /\ orphans' = IF res.threw THEN orphans \cup (req[r].inflight \ {id})
                   ELSE orphans
     /\ Answered(a)
     /\ UNCHANGED <<participants, prev>>

\* What ensure-active does with the re-listed dispatches: answer with the
\* active one, answer that the agent is present, or clean up and create.
EnsureDecisionIgnoreActive(existing, agentPresent) ==
  IF agentPresent THEN "present" ELSE "create"

EnsureDecisionIgnorePresence(existing, agentPresent) ==
  IF FindFirst(existing, isActiveDispatch) # <<>> THEN "reuse" ELSE "create"

EnsureDecisionShared(existing, agentPresent) ==
  IF \E q \in DOMAIN req : req[q].pc = "done" /\ req[q].method = "POST"
    THEN "present"
  ELSE IF FindFirst(existing, isActiveDispatch) # <<>> THEN "reuse"
  ELSE IF agentPresent THEN "present"
  ELSE "create"

EnsureDecision(existing, agentPresent) ==
  IF FindFirst(existing, isActiveDispatch) # <<>> THEN "reuse"
  ELSE IF agentPresent THEN "present"
  ELSE "create"

StaleIdsFirstOnly(existing) ==
  IdsOf(FindFirst(existing, LAMBDA d : d.id # 0))

\* existing.filter((dispatch) => dispatch.id): the stale dispatches a
\* DeleteDispatch is issued for.
StaleIds(existing) == IdsOf(FilterSeq(existing, LAMBDA d : d.id # 0))

\* POST: const existing = await listAgentDispatches(context, room, agentName);
\* the two reuse responses, or the deletes of the stale dispatches are issued.
EnsureRelist(r, a) ==
  LET res == listAgentDispatches(a, AgentName)
      rec == Logged(r, "ListDispatch", 0, a)
      existing == res.value
      activeExisting == FindFirst(existing, isActiveDispatch)
      decision == EnsureDecision(existing, req[r].agentPresent)
  IN /\ req[r].method = "POST" /\ req[r].pc = "DeleteForeign"
     /\ req[r].inflight = {}
     /\ Upd(r, IF res.threw THEN Caught(rec, res.error)
               ELSE IF decision = "reuse"
                 THEN Responded([rec EXCEPT !.existing = existing],
                                JsonResponse(ReuseFields, TRUE,
                                             req[r].agentPresent,
                                             activeExisting, 0, TRUE, 0))
               ELSE IF decision = "present"
                 THEN Responded([rec EXCEPT !.existing = existing],
                                JsonResponse(ReuseFields, TRUE, TRUE, <<>>, 0,
                                             TRUE, 0))
               ELSE [rec EXCEPT
                       !.pc = "DeleteStale",
                       !.existing = existing,
                       !.inflight = StaleIds(existing)])
     /\ Answered(a)
     /\ UNCHANGED <<dispatches, participants, prev, orphans>>

EnsureCreateEarly(r, a) ==
  LET res == createAgentDispatch(a, AgentName)
      rec == [Logged(r, "CreateDispatch",
                     IF res.threw THEN 0 ELSE res.value[1].id, a)
                EXCEPT !.sent = <<CreateBody(readPayload(req[r].request).room,
                                             AgentName, req[r].metadata)>>]
  IN /\ req[r].method = "POST" /\ req[r].pc = "DeleteStale"
     /\ ResOk(a) => Len(dispatches) < MaxDispatches
     /\ dispatches' = IF res.threw THEN dispatches ELSE dispatches \o res.value
     /\ Upd(r, IF res.threw THEN Caught(rec, res.error)
               ELSE Responded(rec, JsonResponse(CreateFields, TRUE, FALSE,
                                                res.value, 0, FALSE, 0)))
     /\ Answered(a)
     /\ UNCHANGED <<participants, prev, orphans>>

EnsureCreateRestoring(r, a) ==
  LET res == createAgentDispatch(a, AgentName)
      rec == [Logged(r, "CreateDispatch",
                     IF res.threw THEN 0 ELSE res.value[1].id, a)
                EXCEPT !.sent = <<CreateBody(readPayload(req[r].request).room,
                                             AgentName, req[r].metadata)>>]
  IN /\ req[r].method = "POST" /\ req[r].pc = "DeleteStale"
     /\ req[r].inflight = {}
     /\ ResOk(a) => Len(dispatches) < MaxDispatches
     /\ dispatches' = IF res.threw
                        THEN dispatches \o SelectSeq(req[r].existing,
                                                     LAMBDA d : d.id # 0)
                        ELSE dispatches \o res.value
     /\ Upd(r, IF res.threw THEN Caught(rec, res.error)
               ELSE Responded(rec, JsonResponse(CreateFields, TRUE, FALSE,
                                                res.value, 0, FALSE, 0)))
     /\ Answered(a)
     /\ UNCHANGED <<participants, prev, orphans>>

\* POST: const dispatch = await createAgentDispatch(...); respond
EnsureCreate(r, a) ==
  LET res == createAgentDispatch(a, AgentName)
      rec == [Logged(r, "CreateDispatch",
                     IF res.threw THEN 0 ELSE res.value[1].id, a)
                EXCEPT !.sent = <<CreateBody(readPayload(req[r].request).room,
                                             AgentName, req[r].metadata)>>]
  IN /\ req[r].method = "POST" /\ req[r].pc = "DeleteStale"
     /\ req[r].inflight = {}
     /\ ResOk(a) => Len(dispatches) < MaxDispatches
     /\ dispatches' = IF res.threw THEN dispatches ELSE dispatches \o res.value
     /\ Upd(r, IF res.threw THEN Caught(rec, res.error)
               ELSE Responded(rec, JsonResponse(CreateFields, TRUE, FALSE,
                                                res.value, 0, FALSE, 0)))
     /\ Answered(a)
     /\ UNCHANGED <<participants, prev, orphans>>

ReleaseListDispatchFirstOnly(r, a) ==
  LET res == listDispatches(a)
      rec == Logged(r, "ListDispatch", 0, a)
      normalized == normalizeAgentName(AgentName)
      matches == FindFirst(res.value,
                           LAMBDA d : normalizeAgentName(d.agentName) = normalized
                                      /\ d.id # 0)
  IN /\ req[r].method = "DELETE" /\ req[r].pc = "ListDispatch"
     /\ Upd(r, IF res.threw THEN Caught(rec, res.error)
               ELSE [rec EXCEPT !.pc = "DeleteDispatch",
                                !.allDispatches = res.value,
                                !.matches = matches,
                                !.inflight = IdsOf(matches)])
     /\ Answered(a)
     /\ UNCHANGED <<dispatches, participants, prev, orphans>>

ReleaseListDispatchAnyAgent(r, a) ==
  LET res == listDispatches(a)
      rec == Logged(r, "ListDispatch", 0, a)
      matches == FilterSeq(res.value, LAMBDA d : d.id # 0)
  IN /\ req[r].method = "DELETE" /\ req[r].pc = "ListDispatch"
     /\ Upd(r, IF res.threw THEN Caught(rec, res.error)
               ELSE [rec EXCEPT !.pc = "DeleteDispatch",
                                !.allDispatches = res.value,
                                !.matches = matches,
                                !.inflight = IdsOf(matches)])
     /\ Answered(a)
     /\ UNCHANGED <<dispatches, participants, prev, orphans>>

\* DELETE: removeAgentDispatch lists the dispatches and issues the deletes.
ReleaseListDispatch(r, a) ==
  LET res == listDispatches(a)
      rec == Logged(r, "ListDispatch", 0, a)
      normalized == normalizeAgentName(AgentName)
      matches == FilterSeq(res.value,
                           LAMBDA d : normalizeAgentName(d.agentName) = normalized
                                      /\ d.id # 0)
  IN /\ req[r].method = "DELETE" /\ req[r].pc = "ListDispatch"
     /\ Upd(r, IF res.threw THEN Caught(rec, res.error)
               ELSE [rec EXCEPT !.pc = "DeleteDispatch",
                                !.allDispatches = res.value,
                                !.matches = matches,
                                !.inflight = IdsOf(matches)])
     /\ Answered(a)
     /\ UNCHANGED <<dispatches, participants, prev, orphans>>

ReleaseResponse(r) ==
  JsonResponse(ReleaseFields, FALSE, FALSE, <<>>, 0, FALSE, Len(req[r].matches))

ReleaseListParticipantsEarly(r, a) ==
  LET res == listParticipants(a)
      rec == [Logged(r, "ListParticipants", 0, a)
                EXCEPT !.participants = IF res.threw THEN {} ELSE res.value]
      agentParticipants ==
        {p \in res.value : IsAgentParticipantRelease(p, AgentName)}
      kicks == {p \in agentParticipants : p # <<>>}
  IN /\ req[r].method = "DELETE" /\ req[r].pc = "DeleteDispatch"
     /\ Upd(r, IF res.threw THEN Caught(rec, res.error)
               ELSE IF kicks = {} THEN Responded(rec, ReleaseResponse(r))
               ELSE [rec EXCEPT !.pc = "RemoveParticipant", !.kicks = kicks])
     /\ Answered(a)
     /\ UNCHANGED <<dispatches, participants, prev, orphans>>

\* DELETE: const participants = await listParticipants(context, room); the
\* removals of the agent's participants are all issued.
ReleaseListParticipants(r, a) ==
  LET res == listParticipants(a)
      rec == [Logged(r, "ListParticipants", 0, a)
                EXCEPT !.participants = IF res.threw THEN {} ELSE res.value]
      agentParticipants ==
        {p \in res.value : IsAgentParticipantRelease(p, AgentName)}
      kicks == {p \in agentParticipants : p # <<>>}
  IN /\ req[r].method = "DELETE" /\ req[r].pc = "DeleteDispatch"
     /\ req[r].inflight = {}
     /\ Upd(r, IF res.threw THEN Caught(rec, res.error)
               ELSE IF kicks = {} THEN Responded(rec, ReleaseResponse(r))
               ELSE [rec EXCEPT !.pc = "RemoveParticipant", !.kicks = kicks])
     /\ Answered(a)
     /\ UNCHANGED <<dispatches, participants, prev, orphans>>

\* DELETE: the upstream handles one RemoveParticipant; a refusal is logged,
\* not thrown.  After the last one the handler responds.
RemoveParticipantAnswered(r, p, a) ==
  LET rec == [req[r] EXCEPT !.calls = Append(@, Call("RemoveParticipant", 0, a)),
                            !.kicks = @ \ {p}]
  IN /\ req[r].method = "DELETE" /\ req[r].pc = "RemoveParticipant"
     /\ p \in req[r].kicks
     /\ participants' = IF ResOk(a) THEN participants \ {p} ELSE participants
     /\ Upd(r, IF rec.kicks = {} THEN Responded(rec, ReleaseResponse(r)) ELSE rec)
     /\ Answered(a)
     /\ UNCHANGED <<dispatches, prev, orphans>>

(***************************************************************************)
(* The upstream's own moves.                                                *)
(***************************************************************************)
\* The job lists the upstream gives a dispatch that has none yet.
AttachableJobs ==
  {<<Job(Str(JS_PENDING))>>, <<Job(Num(3))>>}

AttachJobs(i, jobs) ==
  /\ i \in 1..Len(dispatches)
  /\ dispatches[i].jobs = <<>>
  /\ ~Truthy(dispatches[i].deletedAt)
  /\ dispatches' = [dispatches EXCEPT ![i].jobs = jobs]
  /\ UNCHANGED <<participants, req, prev, orphans, faults>>

\* The jobs the upstream starts for a dispatch that has none running.
LiveJobs == {Job(Num(1)), Job(Str(JS_PENDING))}

\* The upstream gives a dispatch that is not deleted and has no running or
\* pending job such a job.
StartJob(i, job) ==
  /\ i \in 1..Len(dispatches)
  /\ ~Truthy(dispatches[i].deletedAt)
  /\ ~isActiveDispatch(dispatches[i])
  /\ dispatches' = [dispatches EXCEPT ![i].jobs = Append(@, job)]
  /\ UNCHANGED <<participants, req, prev, orphans, faults>>

\* A DeleteDispatch whose request has already responded reaches the upstream.
OrphanDeleteHandled(id, a) ==
  /\ id \in orphans
  /\ orphans' = orphans \ {id}
  /\ dispatches' = IF ResOk(a) THEN WithoutId(dispatches, id) ELSE dispatches
  /\ Answered(a)
  /\ UNCHANGED <<participants, req, prev>>


(***************************************************************************)
(* Specifications.                                                          *)
(***************************************************************************)
\* The dispatch records a room may hold when the first request arrives: of
\* the configured agent (active without id, without jobs, active, deleted
\* with a running job, named in another letter case) and of another agent
\* (with and without id).
InitShapes ==
  << Dispatch(0, AgentName, Absent, <<Job(Num(1))>>),
     Dispatch(1, AgentName, Absent, <<>>),
     Dispatch(1, AgentName, Absent, <<Job(Num(1))>>),
     Dispatch(1, AgentName, Num(1700), <<Job(Str(JS_RUNNING))>>),
     Dispatch(1, AgentNameUpper, Absent, <<Job(Num(0))>>),
     Dispatch(1, OtherAgent, Absent, <<Job(Num(1))>>),
     Dispatch(0, OtherAgent, Absent, <<Job(Num(1))>>) >>

\* The upstream numbers the records that have an id by their position.
Numbered(shapes) ==
  [i \in 1..Len(shapes) |-> [shapes[i] EXCEPT !.id = IF @ = 0 THEN 0 ELSE i]]

\* The rooms of at most MaxInitDispatches records, listed in the order of
\* InitShapes.
InitRooms ==
  UNION {{Numbered([i \in 1..n |-> InitShapes[f[i]]]) :
            f \in {g \in [1..n -> 1..Len(InitShapes)] :
                     \A i \in 1..n : \A j \in i..n : g[i] <= g[j]}} :
         n \in 0..MaxInitDispatches}

InitParticipants ==
  { {}, {AgentName}, {HumanIdentity, PrefixedIdentity},
    {HumanIdentity, AgentNameUpper} }

Init ==
  /\ dispatches \in InitRooms
  /\ participants \in InitParticipants
  /\ req = [r \in {"r1"} |-> IdleRequest]
  /\ prev = NoPrev
  /\ orphans = {}
  /\ faults = 0

StartRequest == \E r \in DOMAIN req, m \in Methods : Start(r, m)

StatusLists == \E r \in DOMAIN req, a \in Answers : StatusListDispatch(r, a)

StatusResponds == \E r \in DOMAIN req, a \in Answers : StatusListParticipants(r, a)

EnsureLists == \E r \in DOMAIN req, a \in Answers : EnsureListDispatch(r, a)

EnsureListsParticipants ==
  \E r \in DOMAIN req, a \in Answers : EnsureListParticipants(r, a)

EnsureRelists == \E r \in DOMAIN req, a \in Answers : EnsureRelist(r, a)

EnsureCreates == \E r \in DOMAIN req, a \in Answers : EnsureCreate(r, a)

ReleaseLists == \E r \in DOMAIN req, a \in Answers : ReleaseListDispatch(r, a)

ReleaseListsParticipants ==
  \E r \in DOMAIN req, a \in Answers : ReleaseListParticipants(r, a)

ReleaseRemoves ==
  \E r \in DOMAIN req, a \in Answers :
    \E p \in req[r].kicks : RemoveParticipantAnswered(r, p, a)

UpstreamDeletes ==
  \E r \in DOMAIN req, a \in Answers :
    \E id \in req[r].inflight : DeleteAnswered(r, id, a)

UpstreamAttachesJobs ==
  \E i \in 1..Len(dispatches), jobs \in AttachableJobs : AttachJobs(i, jobs)

UpstreamDeletesOrphan == \E id \in orphans, a \in Answers : OrphanDeleteHandled(id, a)

\* The steps of the three operations.
Handler ==
  \/ StatusLists
  \/ StatusResponds
  \/ EnsureLists
  \/ EnsureListsParticipants
  \/ EnsureRelists
  \/ EnsureCreates
  \/ ReleaseLists
  \/ ReleaseListsParticipants
  \/ ReleaseRemoves
  \/ UpstreamDeletes

\* One request at a time, against an upstream that answers faithfully.
Next ==
  \/ StartRequest
  \/ Handler
  \/ UpstreamAttachesJobs

Spec == Init /\ [][Next]_vars

\* Two ensure-active requests for the same room and agent, their steps
\* interleaved in every order, against an upstream that answers faithfully.
Requests == {"r1", "r2"}

InitConc ==
  /\ dispatches \in {<<>>, <<Dispatch(1, OtherAgent, Absent, <<Job(Num(1))>>)>>,
                      <<Dispatch(1, AgentName, Absent, <<>>)>>}
  /\ participants \in {{}, {HumanIdentity}}
  /\ req = [r \in Requests |-> IdleRequest]
  /\ prev = NoPrev
  /\ orphans = {}
  /\ faults = 0

\* Each of the two calls is made once.
StartEnsure == \E r \in DOMAIN req : req[r].pc = "idle" /\ Start(r, "POST")

NextConc ==
  \/ StartEnsure
  \/ EnsureLists
  \/ EnsureListsParticipants
  \/ UpstreamDeletes
  \/ EnsureRelists
  \/ EnsureCreates
  \/ UpstreamAttachesJobs

SpecConc == InitConc /\ [][NextConc]_vars


(***************************************************************************)
(* Vocabulary of the properties.                                            *)
(***************************************************************************)
Finished(r, m) == req[r].method = m /\ Done(r)

Succeeded(r, m) == Finished(r, m) /\ Response(r).code = 200

Creates(r) == CallsOf(r, "CreateDispatch")

Deletes(r) == CallsOf(r, "DeleteDispatch")

LastCall(r) == req[r].calls[Len(req[r].calls)]

\* A dispatch of the configured agent: its name compared ignoring case.
OfAgent(d) == ToLowerCase(Trim(d.agentName)) = ToLowerCase(AgentName)

\* A dispatch of another agent.
OfOtherAgent(d) == d.agentName # <<>> /\ ~OfAgent(d)

\* A dispatch named exactly as the configured agent, as CreateDispatch
\* names it.
NamedAsAgent(d) == d.agentName = AgentName

\* state.deletedAt is set: present and neither zero nor empty.
DeletedAtSet(d) ==
  \/ d.deletedAt.t = "num" /\ d.deletedAt.n > 0
  \/ d.deletedAt.t = "str" /\ Len(d.deletedAt.s) > 0

Count(s, Test(_)) == Len(SelectSeq(s, Test))

Some(s, Test(_)) == \E i \in 1..Len(s) : Test(s[i])

\* C1: in ensure-active, whenever the re-listed dispatches of the agent
\* contain an active one, the call has responded 200 with the first active
\* one, active = true and reused = true, has issued no CreateDispatch, and
\* its re-listing is the last upstream call it made (no further delete).
C1_ReuseActive ==
  \A r \in DOMAIN req :
    (req[r].method = "POST" /\ Some(req[r].existing, isActiveDispatch)) =>
      /\ Succeeded(r, "POST")
      /\ Response(r).dispatch =
           <<Head(SelectSeq(req[r].existing, isActiveDispatch))>>
      /\ Response(r).active /\ Response(r).reused
      /\ "reused" \in Response(r).fields
      /\ Creates(r) = <<>>
      /\ LastCall(r).op = "ListDispatch"
      /\ req[r].inflight = {}

\* C1's case: the reuse path taken while a stale dispatch of the agent is
\* listed beside the active one, and after a foreign dispatch was deleted.
C1_Witness ==
  \E r \in DOMAIN req :
    /\ Succeeded(r, "POST")
    /\ Some(req[r].existing, isActiveDispatch)
    /\ Some(req[r].existing, LAMBDA d : d.id # 0 /\ ~isActiveDispatch(d))
    /\ Deletes(r) # <<>>

\* C2: a room without dispatches and agent participant; two ensure-active
\* calls, one after the other.  The first issues exactly one CreateDispatch;
\* the second issues no CreateDispatch and no DeleteDispatch and answers
\* reused = true with the dispatch the first one created, whatever jobs the
\* upstream has attached to it meanwhile.
C2_Idempotent ==
  \A r \in DOMAIN req :
    /\ (Succeeded(r, "POST") /\ req[r].startEmpty) => Len(Creates(r)) = 1
    /\ (Finished(r, "POST") /\ prev.method = "POST" /\ prev.startEmpty
          /\ prev.code = 200) =>
         /\ Response(r).code = 200
         /\ Response(r).reused
         /\ Creates(r) = <<>> /\ Deletes(r) = <<>>
         /\ IdsOf(Response(r).dispatch) = IdsOf(prev.created)

\* C3 as stated: the room held dispatches of the agent and of another agent
\* (here: each of them with an id); after ensure-active has answered 200 the
\* upstream holds no dispatch of another agent and exactly one of the agent.
C3_ConflictEviction ==
  \A r \in DOMAIN req :
    (Succeeded(r, "POST") /\ Some(req[r].allDispatches, OfAgent)
       /\ Some(req[r].allDispatches, OfOtherAgent)
       /\ ~Some(req[r].allDispatches, LAMBDA d : d.id = 0)) =>
      /\ ~Some(dispatches, OfOtherAgent)
      /\ Count(dispatches, OfAgent) = 1

\* C3 as amended: after ensure-active has answered 200 the upstream holds no
\* dispatch with an id under a name other than the configured one; if the
\* call created a dispatch, that one is the agent's only dispatch with an
\* id; if it did not, it deleted none of the agent's re-listed dispatches.
C3_ConflictEvictionAmended ==
  \A r \in DOMAIN req :
    Succeeded(r, "POST") =>
      /\ \A i \in 1..Len(dispatches) :
           (dispatches[i].id # 0 /\ dispatches[i].agentName # <<>>)
             => NamedAsAgent(dispatches[i])
      /\ Creates(r) # <<>> =>
           /\ Len(Creates(r)) = 1
           /\ Count(dispatches, LAMBDA d : OfAgent(d) /\ d.id # 0) = 1
           /\ IdsOf(SelectSeq(dispatches, LAMBDA d : OfAgent(d) /\ d.id # 0))
                = IdsOf(Response(r).dispatch)
      /\ Creates(r) = <<>> =>
           /\ IdsOf(req[r].existing) \subseteq IdsOf(dispatches) \cup {0}
           /\ Count(dispatches, OfAgent) = Len(req[r].existing)

\* C3's case: dispatches of the agent and of another agent were listed, and
\* the call deleted the other agent's and created one.
C3_Witness ==
  \E r \in DOMAIN req :
    /\ Succeeded(r, "POST")
    /\ Some(req[r].allDispatches, OfAgent)
    /\ Some(req[r].allDispatches, LAMBDA d : OfOtherAgent(d) /\ d.id # 0)
    /\ Creates(r) # <<>>
    /\ Len(Deletes(r)) >= 2


\* The dispatches of a listing that CreateDispatch calls for the configured
\* agent have left: named exactly as the agent, with an id.
Duplicates(all) == SelectSeq(all, LAMBDA d : NamedAsAgent(d) /\ d.id # 0)

\* C5 as stated: once the upstream holds two dispatches of the agent, a
\* later status call counts both in total and a later ensure-active call
\* deletes neither of them.
C5_DuplicatesStay ==
  \A r \in DOMAIN req :
    Len(Duplicates(req[r].allDispatches)) >= 2 =>
      /\ Succeeded(r, "GET") =>
           Response(r).total >= Len(Duplicates(req[r].allDispatches))
      /\ req[r].method = "POST" =>
           \A i \in 1..Len(req[r].calls) :
             req[r].calls[i].op = "DeleteDispatch" =>
               req[r].calls[i].id \notin IdsOf(Duplicates(req[r].allDispatches))

\* C5 as amended: a later status call counts both in total; a later
\* ensure-active call deletes neither of them when the agent's re-listed
\* dispatches contain an active one or an agent participant is listed, and
\* otherwise deletes both and creates one dispatch.
C5_DuplicatesStayAmended ==
  \A r \in DOMAIN req :
    LET dups == Duplicates(req[r].allDispatches)
        deleted == {req[r].calls[i].id : i \in {j \in 1..Len(req[r].calls) :
                                                  req[r].calls[j].op = "DeleteDispatch"}}
    IN Len(dups) >= 2 =>
         /\ Succeeded(r, "GET") =>
              Response(r).total = Count(req[r].allDispatches, NamedAsAgent)
         /\ Succeeded(r, "POST") =>
              IF Some(req[r].existing, isActiveDispatch) \/ req[r].agentPresent
                THEN deleted \cap IdsOf(dups) = {} /\ Creates(r) = <<>>
                ELSE IdsOf(dups) \subseteq deleted /\ Len(Creates(r)) = 1

\* C5's case: two dispatches of the agent were listed, none active, no agent
\* participant, and ensure-active has answered.
C5_Witness ==
  \E r \in DOMAIN req :
    /\ Succeeded(r, "POST")
    /\ Len(Duplicates(req[r].allDispatches)) >= 2
    /\ ~Some(req[r].existing, isActiveDispatch)
    /\ ~req[r].agentPresent

\* C7: a dispatch whose state.deletedAt is set is never the dispatch a
\* status response or an ensure-active reuse response returns, and a status
\* response says active = true only with a returned dispatch.
C7_DeletedNeverActive ==
  \A r \in DOMAIN req :
    (Succeeded(r, "GET") \/ (Succeeded(r, "POST") /\ Creates(r) = <<>>)) =>
      /\ ~Some(Response(r).dispatch, DeletedAtSet)
      /\ (req[r].method = "GET" /\ Response(r).active) =>
           Response(r).dispatch # <<>>

\* C7's case: a deleted dispatch of the agent with a running job was listed
\* and the request has answered.
C7_Witness ==
  \E r \in DOMAIN req :
    /\ Succeeded(r, "GET") \/ (Succeeded(r, "POST") /\ Creates(r) = <<>>)
    /\ Some(req[r].ours \o req[r].existing,
            LAMBDA d : /\ DeletedAtSet(d)
                       /\ \E i \in 1..Len(d.jobs) :
                            normalizeStatus(d.jobs[i].status) = JS_RUNNING)


\* One request at a time, against an upstream that may answer "not found" or
\* with a server error, MaxFaults times in all.
InitErrRooms ==
  { <<>>,
    Numbered(<<InitShapes[3], InitShapes[6]>>),
    Numbered(<<InitShapes[2], InitShapes[2]>>),
    Numbered(<<InitShapes[6], InitShapes[6]>>),
    Numbered(<<InitShapes[1], InitShapes[5]>>) }

InitErr ==
  /\ dispatches \in InitErrRooms
  /\ participants \in {{}, {AgentName}, {HumanIdentity, PrefixedIdentity}}
  /\ req = [r \in {"r1"} |-> IdleRequest]
  /\ prev = NoPrev
  /\ orphans = {}
  /\ faults = MaxFaults

NextErr ==
  \/ StartRequest
  \/ Handler
  \/ UpstreamDeletesOrphan

SpecErr == InitErr /\ [][NextErr]_vars

\* One status or ensure-active request on a room whose only dispatch, of the
\* configured agent, is any combination of: with or without id; deletedAt
\* absent, 0, '', a number, a string; at most MaxJobs jobs whose status is
\* absent, a number or a string.
DeletedAtValues ==
  {Absent, Num(0), Num(1700), Str(<<>>), Str(<<"0">>)}

StatusValues ==
  { Absent, Num(0), Num(1), Num(2), Num(4),
    Str(JS_RUNNING), Str(<<" ", "j", "s", "_", "p", "e", "n", "d", "i", "n", "g", " ">>),
    Str(<<"R", "U", "N", "N", "I", "N", "G">>), Str(JS_FAILED), Str(<<>>) }

JobLists ==
  UNION {[1..n -> {Job(st) : st \in StatusValues}] : n \in 0..MaxJobs}

InitActive ==
  /\ \E id \in {0, 1}, deletedAt \in DeletedAtValues, jobs \in JobLists :
       dispatches = <<Dispatch(id, AgentName, deletedAt, jobs)>>
  /\ participants = {}
  /\ req = [r \in {"r1"} |-> IdleRequest]
  /\ prev = NoPrev
  /\ orphans = {}
  /\ faults = 0

StartStatusOrEnsure ==
  \E r \in DOMAIN req, m \in {"GET", "POST"} : req[r].pc = "idle" /\ Start(r, m)

NextActive ==
  \/ StartStatusOrEnsure
  \/ StatusLists
  \/ StatusResponds
  \/ EnsureLists
  \/ EnsureListsParticipants
  \/ EnsureRelists
  \/ UpstreamDeletes
  \/ EnsureCreates

SpecActive == InitActive /\ [][NextActive]_vars

\* ensure-active called again and again, one call at a time, against an
\* upstream that answers faithfully and in the end starts a job for every
\* dispatch that is not deleted.
InitLiveRooms ==
  { <<>>,
    Numbered(<<InitShapes[2]>>),
    Numbered(<<InitShapes[1]>>),
    Numbered(<<InitShapes[4]>>),
    Numbered(<<InitShapes[6]>>),
    Numbered(<<InitShapes[3], InitShapes[3]>>) }

InitLive ==
  /\ dispatches \in InitLiveRooms
  /\ participants \in {{}, {HumanIdentity}, {HumanIdentity, PrefixedIdentity}}
  /\ req = [r \in {"r1"} |-> IdleRequest]
  /\ prev = NoPrev
  /\ orphans = {}
  /\ faults = 0

StartEnsureAgain == \E r \in DOMAIN req : Start(r, "POST")

UpstreamStartsJob ==
  \E i \in 1..Len(dispatches), job \in LiveJobs : StartJob(i, job)

NextLive ==
  \/ StartEnsureAgain
  \/ EnsureLists
  \/ EnsureListsParticipants
  \/ UpstreamDeletes
  \/ EnsureRelists
  \/ EnsureCreates
  \/ UpstreamStartsJob

\* Every call is made and runs to its response; the upstream starts jobs.
SpecLive ==
  /\ InitLive /\ [][NextLive]_vars
  /\ WF_vars(StartEnsureAgain)
  /\ WF_vars(EnsureLists)
  /\ WF_vars(EnsureListsParticipants)
  /\ WF_vars(UpstreamDeletes)
  /\ WF_vars(EnsureRelists)
  /\ WF_vars(EnsureCreates)
  /\ SF_vars(UpstreamStartsJob)

\* One request, of any method, with or without room and metadata, to a
\* deployment whose configuration is complete or lacks a value.
Blank == <<" ">>

PaddedAgentName == <<" ">> \o AgentName \o <<" ">>

Envs ==
  { ConfiguredEnv,
    [ConfiguredEnv EXCEPT !.LIVEKIT_API_KEY = Absent],
    [ConfiguredEnv EXCEPT !.LIVEKIT_API_KEY = Str(<<>>)],
    [ConfiguredEnv EXCEPT !.LIVEKIT_API_KEY = Str(Blank)],
    [ConfiguredEnv EXCEPT !.LIVEKIT_API_SECRET = Absent],
    [ConfiguredEnv EXCEPT !.LIVEKIT_URL = Str(<<>>)],
    [ConfiguredEnv EXCEPT !.LIVEKIT_AGENT_NAME = Absent],
    [ConfiguredEnv EXCEPT !.LIVEKIT_AGENT_NAME = Str(Blank)],
    [ConfiguredEnv EXCEPT !.LIVEKIT_AGENT_NAME = Str(<<>>),
                          !.VOICE_AGENT_NAME = Str(AgentName)],
    [ConfiguredEnv EXCEPT !.LIVEKIT_AGENT_NAME = Absent,
                          !.VOICE_AGENT_NAME = Str(PaddedAgentName)],
    [ConfiguredEnv EXCEPT !.VITE_DEFAULT_ROOM = Absent],
    [ConfiguredEnv EXCEPT !.VITE_DEFAULT_ROOM = Absent,
                          !.VOICE_AGENT_DEMO_ROOM = Str(<<" ">> \o RoomName)] }

Rooms == {Absent, Str(<<>>), Str(Blank), Str(RoomName), Str(DEMO_ROOM)}

KeyedMetadata(value) == <<"{", GEMINI_KEY, ":", value, "}">>

MetadataValues ==
  { Absent, Num(7), Str(<<>>), Str(Blank), Str(EMPTY_OBJECT),
    Str(Blank \o EMPTY_OBJECT \o Blank), Str(NULL_TEXT), Str(NULL_TEXT \o Blank),
    Str(<<"x">>), Str(<<" ", "x", " ">>),
    Str(KeyedMetadata("\"tok\"")), Str(Blank \o KeyedMetadata("\"tok\"")),
    Str(KeyedMetadata("\" \"")), Str(KeyedMetadata("7")) }

ContentTypes ==
  { APPLICATION_JSON, APPLICATION_JSON \o <<";", " ", "u", "t", "f", "-", "8">>,
    <<"t", "e", "x", "t">>, <<>> }

InboundRequests ==
  {Request(m, <<>>, room, Absent, FALSE, Absent, Absent) :
     m \in {"GET", "DELETE", "PUT"}, room \in Rooms}
  \cup {Request("POST", APPLICATION_JSON, Absent, Absent, TRUE, room, metadata) :
          room \in Rooms, metadata \in MetadataValues}
  \cup {Request("POST", contentType, Str(RoomName), Absent, bodyJson, Str(RoomName),
                 Absent) :
          contentType \in ContentTypes, bodyJson \in BOOLEAN}

InitEntry ==
  /\ dispatches \in {<<>>, <<Dispatch(1, AgentName, Absent, <<>>)>>}
  /\ participants \in {{}, {AgentName}}
  /\ req = [r \in {"r1"} |-> IdleRequest]
  /\ prev = NoPrev
  /\ orphans = {}
  /\ faults = 0

Arrives ==
  \E r \in DOMAIN req, env \in Envs, request \in InboundRequests :
    req[r].pc = "idle" /\ Receive(r, env, request)

NextEntry ==
  \/ Arrives
  \/ Handler

SpecEntry == InitEntry /\ [][NextEntry]_vars

\* The id of the dispatch a request has created.
CreatedId(r) == Creates(r)[1].id

\* C4: nothing local keeps two interleaved ensure-active calls from both
\* creating.  A call that has re-listed no active dispatch and has no delete
\* outstanding can issue its CreateDispatch whatever the other call has done;
\* and when two calls have both created without either having re-listed the
\* other's dispatch, the upstream holds both dispatches, two distinct records
\* of the same agent.
C4_ConcurrentCreate ==
  /\ \A r \in DOMAIN req :
       (req[r].pc = "DeleteStale" /\ req[r].inflight = {}
          /\ Len(dispatches) < MaxDispatches) =>
         ENABLED EnsureCreate(r, Answer(200, <<>>))
  /\ \A r1, r2 \in DOMAIN req :
       (r1 # r2 /\ Succeeded(r1, "POST") /\ Succeeded(r2, "POST")
          /\ Creates(r1) # <<>> /\ Creates(r2) # <<>>
          /\ CreatedId(r1) \notin IdsOf(req[r2].existing)
          /\ CreatedId(r2) \notin IdsOf(req[r1].existing)) =>
         /\ CreatedId(r1) # CreatedId(r2)
         /\ {CreatedId(r1), CreatedId(r2)} \subseteq IdsOf(Duplicates(dispatches))
         /\ Count(dispatches, OfAgent) >= 2

\* C4's case: both calls re-listed no dispatch of the agent, both created,
\* and the upstream holds the two dispatches they created.
C4_Witness ==
  \E r1, r2 \in DOMAIN req :
    /\ r1 # r2 /\ Succeeded(r1, "POST") /\ Succeeded(r2, "POST")
    /\ req[r1].existing = <<>> /\ req[r2].existing = <<>>
    /\ Len(Creates(r1)) = 1 /\ Len(Creates(r2)) = 1
    /\ Count(dispatches, NamedAsAgent) = 2
    /\ IdsOf(Duplicates(dispatches)) = {CreatedId(r1), CreatedId(r2)}


\* The positions of a request's answered calls of one kind.
CallIndexes(r, op) == {i \in 1..Len(req[r].calls) : req[r].calls[i].op = op}

\* The call at position i was answered "not found".
NotFoundAt(r, i) == i \in 1..Len(req[r].calls) /\ req[r].calls[i].st = 404

\* C9: a ListDispatch or ListParticipants answered 404 raises nothing and
\* the request goes on as for an empty room.  No response is a 502 after a
\* 404.  After a 404 to the first ListDispatch the request holds an empty
\* listing: status answers total 0, active false and no dispatch,
\* ensure-active issues no delete before it re-lists, release issues no
\* delete and removes 0.  After a 404 to ListParticipants no agent is
\* present: status and ensure-active take agentPresent false, release issues
\* no RemoveParticipant and answers.  After a 404 to ensure-active's
\* re-listing nothing is re-listed: no reuse of a dispatch, no delete of a
\* stale one.
C9_NotFoundIsEmpty ==
  \A r \in DOMAIN req :
    /\ (Done(r) /\ Response(r).code = 502) =>
         (LastCall(r).st # 404 \/ LastCall(r).op = "CreateDispatch")
    /\ NotFoundAt(r, 1) =>
         /\ req[r].allDispatches = <<>> /\ req[r].ours = <<>>
         /\ req[r].matches = <<>>
         /\ Succeeded(r, "GET") =>
              /\ Response(r).total = 0 /\ ~Response(r).active
              /\ Response(r).dispatch = <<>>
         /\ (req[r].method = "POST" /\ Len(req[r].calls) >= 3) =>
              req[r].calls[3].op = "ListDispatch"
         /\ req[r].method = "DELETE" => Deletes(r) = <<>>
         /\ Succeeded(r, "DELETE") => Response(r).removed = 0
    /\ (\E i \in CallIndexes(r, "ListParticipants") : NotFoundAt(r, i)) =>
         /\ ~req[r].agentPresent
         /\ CallsOf(r, "RemoveParticipant") = <<>>
         /\ Succeeded(r, "GET") => ~Response(r).agentPresent
         /\ req[r].method = "DELETE" => Succeeded(r, "DELETE")
         /\ (Succeeded(r, "POST") /\ Response(r).reused) =>
              Some(req[r].existing, isActiveDispatch)
    /\ (req[r].method = "POST"
          /\ \E i \in CallIndexes(r, "ListDispatch") : i >= 3 /\ NotFoundAt(r, i)) =>
         /\ req[r].existing = <<>>
         /\ Succeeded(r, "POST") /\ Response(r).reused =>
              req[r].agentPresent /\ Response(r).dispatch = <<>>
         /\ \A i \in CallIndexes(r, "DeleteDispatch") :
              \E j \in CallIndexes(r, "ListDispatch") : j > i

\* C9's case: a status request answered 200 after a 404 to its ListDispatch
\* while the upstream holds an active dispatch of the agent, and after a 404
\* to its ListParticipants while an agent participant is connected.
C9_Witness ==
  \E r \in DOMAIN req :
    /\ Succeeded(r, "GET")
    /\ NotFoundAt(r, 1) /\ NotFoundAt(r, 2)
    /\ Some(dispatches, LAMBDA d : NamedAsAgent(d) /\ isActiveDispatch(d))
    /\ \E p \in participants : IsAgentParticipant(p, AgentName)


\* A call whose answer makes its helper throw: a non-2xx answer to
\* CreateDispatch, a non-2xx answer other than 404 to ListDispatch,
\* ListParticipants or DeleteDispatch.
Fatal(c) ==
  /\ c.op \in {"ListDispatch", "ListParticipants", "DeleteDispatch", "CreateDispatch"}
  /\ c.st < 200 \/ c.st > 299
  /\ c.op = "CreateDispatch" \/ c.st # 404

\* C10 as stated: such an answer ends the request with a 502 whose body is
\* the upstream's response body; the call is the request's last.
C10_UpstreamError ==
  \A r \in DOMAIN req :
    \A i \in 1..Len(req[r].calls) :
      Fatal(req[r].calls[i]) =>
        /\ Done(r) /\ Response(r).code = 502
        /\ Response(r).text = req[r].calls[i].body
        /\ i = Len(req[r].calls)
        /\ req[r].inflight = {} /\ req[r].kicks = {}

\* C10 as amended: such an answer ends the request with a 502 whose body is
\* the upstream's response body when that is not empty and the text
\* "<operation> failed with status <status>" when it is; the call is the
\* request's last (not issued again, no later step), and a 502 has no other
\* cause.
C10_UpstreamErrorAmended ==
  \A r \in DOMAIN req :
    /\ \A i \in 1..Len(req[r].calls) :
         Fatal(req[r].calls[i]) =>
           /\ Done(r) /\ Response(r).code = 502
           /\ Response(r).fields = {}
           /\ Response(r).text =
                IF Len(req[r].calls[i].body) > 0 THEN req[r].calls[i].body
                ELSE << req[r].calls[i].op, " failed with status ",
                        IF req[r].calls[i].st = 404 THEN "404" ELSE "500" >>
           /\ i = Len(req[r].calls)
           /\ req[r].inflight = {} /\ req[r].kicks = {}
    /\ (Done(r) /\ Response(r).code = 502) => Fatal(LastCall(r))

\* C10's case: a request ended by a failed DeleteDispatch that answered with
\* a body while another delete was outstanding, after an earlier request had
\* ended with a 502 as well.
C10_Witness ==
  \E r \in DOMAIN req :
    /\ Done(r) /\ Response(r).code = 502
    /\ Fatal(LastCall(r))
    /\ LastCall(r).op = "DeleteDispatch"
    /\ Len(LastCall(r).body) > 0
    /\ orphans # {}
    /\ prev.code = 502


\* A job status that names the RUNNING or PENDING state: the number 1 or 0,
\* or a string that reads JS_RUNNING or JS_PENDING once blanks around it
\* are dropped and letter case is ignored.
RunningOrPending(st) ==
  \/ st.t = "num" /\ st.n \in {0, 1}
  \/ st.t = "str" /\ ToLowerCase(Trim(st.s)) \in
                         {ToLowerCase(JS_RUNNING), ToLowerCase(JS_PENDING)}

HasLiveJob(d) == \E i \in 1..Len(d.jobs) : RunningOrPending(d.jobs[i].status)

\* Active as stated: has an id, deletedAt unset, a job RUNNING or PENDING.
ActiveAsStated(d) == d.id # 0 /\ ~DeletedAtSet(d) /\ HasLiveJob(d)

\* Active as amended: deletedAt unset, a job RUNNING or PENDING.
ActiveAsAmended(d) == ~DeletedAtSet(d) /\ HasLiveJob(d)

\* C8 as stated: status answers active = true with a dispatch, and
\* ensure-active reuses a dispatch, exactly when the dispatch has an id, its
\* deletedAt is unset and one of its jobs is RUNNING or PENDING.
C8_ActivePredicate ==
  \A r \in DOMAIN req :
    /\ Succeeded(r, "GET") =>
         /\ Response(r).active = Some(req[r].ours, ActiveAsStated)
         /\ Response(r).dispatch = FindFirst(req[r].ours, ActiveAsStated)
    /\ (req[r].method = "POST" /\ Len(CallsOf(r, "ListDispatch")) >= 2) =>
         /\ Some(req[r].existing, ActiveAsStated) = (Done(r) /\ Response(r).reused)
         /\ (Done(r) /\ Response(r).reused) =>
              Response(r).dispatch = FindFirst(req[r].existing, ActiveAsStated)

\* C8 as amended: the same with the predicate that does not look at the id;
\* and the predicate the two operations apply is that one for every dispatch
\* the upstream holds.
C8_ActivePredicateAmended ==
  /\ \A i \in 1..Len(dispatches) :
       isActiveDispatch(dispatches[i]) = ActiveAsAmended(dispatches[i])
  /\ \A r \in DOMAIN req :
       /\ Succeeded(r, "GET") =>
            /\ Response(r).active = Some(req[r].ours, ActiveAsAmended)
            /\ Response(r).dispatch = FindFirst(req[r].ours, ActiveAsAmended)
       /\ (req[r].method = "POST" /\ Len(CallsOf(r, "ListDispatch")) >= 2) =>
            /\ Some(req[r].existing, ActiveAsAmended)
                 = (Done(r) /\ Response(r).reused)
            /\ (Done(r) /\ Response(r).reused) =>
                 Response(r).dispatch = FindFirst(req[r].existing, ActiveAsAmended)

\* C8's case: ensure-active has reused a dispatch without id whose deletedAt
\* is '' and whose second job is pending, written in lower case with blanks.
C8_Witness ==
  \E r \in DOMAIN req :
    /\ Succeeded(r, "POST") /\ Response(r).reused
    /\ Response(r).dispatch # <<>>
    /\ Response(r).dispatch[1].id = 0
    /\ Response(r).dispatch[1].deletedAt = Str(<<>>)
    /\ Len(Response(r).dispatch[1].jobs) = 2
    /\ Response(r).dispatch[1].jobs[1].status = Num(2)
    /\ Response(r).dispatch[1].jobs[2].status.t = "str"
    /\ Response(r).dispatch[1].jobs[2].status.s # JS_RUNNING


\* The agent's dispatches the activity predicate accepts.
ActiveOfAgent == SelectSeq(dispatches, LAMBDA d : OfAgent(d) /\ isActiveDispatch(d))

\* C6 as stated, for the room it should hold of first: from a room without
\* dispatches and without participants, with ensure-active called again and
\* again and the upstream starting jobs, the room reaches, and then stays in,
\* a state with exactly one active dispatch of the configured agent.
C6_Converges ==
  (dispatches = <<>> /\ participants = {}) => <>[](Len(ActiveOfAgent) = 1)


\* The metadata member of a POST body, as the claim reads it: its text
\* without the blanks around it, or nothing when it is not a string.
TrimmedMetadata(request) ==
  IF request.bodyMetadata.t = "str" THEN <<Trim(request.bodyMetadata.s)>> ELSE <<>>

\* C11: when the metadata of an ensure-active request is not a string, or
\* trims to '', '{}' or 'null', the CreateDispatch the request issues has no
\* metadata member; otherwise its metadata member is the trimmed text.
C11_MetadataAttached ==
  \A r \in DOMAIN req :
    (req[r].method = "POST" /\ req[r].sent # <<>>) =>
      LET trimmed == TrimmedMetadata(req[r].request) IN
        IF trimmed = <<>> \/ trimmed[1] \in {<<>>, EMPTY_OBJECT, NULL_TEXT}
          THEN "metadata" \notin req[r].sent[1].fields
          ELSE /\ "metadata" \in req[r].sent[1].fields
               /\ req[r].sent[1].metadata = Str(trimmed[1])

\* C11's case: a create issued for a request whose metadata came padded with
\* blanks, carrying the text without them.
C11_Witness ==
  \E r \in DOMAIN req :
    /\ Succeeded(r, "POST") /\ Creates(r) # <<>>
    /\ req[r].request.bodyMetadata = Str(Blank \o KeyedMetadata("\"tok\""))
    /\ req[r].sent[1].metadata = Str(KeyedMetadata("\"tok\""))


\* The dispatches of a listing that release is to delete: of the configured
\* agent, with an id.
Releasable(all) == SelectSeq(all, LAMBDA d : OfAgent(d) /\ d.id # 0)

\* C12: release issues one DeleteDispatch for each dispatch of the agent
\* with an id in its listing; a delete answered 404 ends nothing; and the
\* removed count is the number of those dispatches, the ones whose delete
\* was answered 404 included.
C12_ReleaseCounts ==
  \A r \in DOMAIN req :
    (req[r].method = "DELETE" /\ req[r].pc # "ListDispatch") =>
      LET expected == Releasable(req[r].allDispatches)
          answered == Deletes(r)
      IN /\ ~(Done(r) /\ Response(r).code = 502) =>
              /\ {answered[i].id : i \in 1..Len(answered)} \cup req[r].inflight
                   = IdsOf(expected)
              /\ \A i, j \in 1..Len(answered) :
                   answered[i].id = answered[j].id => i = j
              /\ \A i \in 1..Len(answered) : answered[i].id \notin req[r].inflight
         /\ (Done(r) /\ Response(r).code = 502) => LastCall(r).st # 404
         /\ Succeeded(r, "DELETE") =>
              /\ Response(r).removed = Len(expected)
              /\ Len(answered) = Len(expected)

\* C12's case: a release that has answered 200 with removed = 2 after one
\* of its two deletes was answered 404.
C12_Witness ==
  \E r \in DOMAIN req :
    /\ Succeeded(r, "DELETE")
    /\ Response(r).removed = 2
    /\ \E i \in CallIndexes(r, "DeleteDispatch") : NotFoundAt(r, i)
    /\ \E i \in CallIndexes(r, "DeleteDispatch") : req[r].calls[i].st = 200


\* C13: a release whose listing and deletes of the dispatches have succeeded
\* answers 200 with the removed count, whatever ListParticipants and
\* RemoveParticipant have answered.
C13_CleanupSwallowed ==
  \A r \in DOMAIN req :
    (Finished(r, "DELETE")
       /\ \A i \in CallIndexes(r, "ListDispatch") \cup CallIndexes(r, "DeleteDispatch") :
            ~Fatal(req[r].calls[i])) =>
      /\ Response(r).code = 200
      /\ Response(r).removed = Len(Releasable(req[r].allDispatches))


\* The operations of a request's answered calls, in order.
OpsOf(calls) == [i \in 1..Len(calls) |-> calls[i].op]

\* C14: a step of a status request leaves the upstream's dispatches and
\* participants (and the deletes under way) as they are and adds at most a
\* ListDispatch or ListParticipants call; a status request that has answered
\* 200 has made exactly one ListDispatch and then one ListParticipants call
\* of its own.
C14_StatusReadOnly ==
  [][\A r \in DOMAIN req :
       /\ (req[r].method = "GET" /\ req[r].pc # "done" /\ req'[r] # req[r]) =>
            /\ dispatches' = dispatches
            /\ participants' = participants
            /\ orphans' = orphans
            /\ \A i \in 1..Len(req'[r].calls) :
                 req'[r].calls[i].op \in {"ListDispatch", "ListParticipants"}
       /\ (req'[r].method = "GET" /\ req'[r].pc = "done"
             /\ req'[r].resp[1].code = 200) =>
            OpsOf(req'[r].calls) = <<"ListDispatch", "ListParticipants">>]_vars

\* C14's case: a second status request in a row has answered 200 for a
\* room that holds a dispatch of another agent, a dispatch of the agent and
\* an agent participant.
C14_Witness ==
  \E r \in DOMAIN req :
    /\ Succeeded(r, "GET") /\ prev.method = "GET" /\ prev.code = 200
    /\ Some(dispatches, OfOtherAgent)
    /\ Response(r).total >= 1
    /\ Response(r).agentPresent


\* A configuration value that is missing or blank: absent, or nothing but
\* blanks.
MissingOrBlank(v) == v.t # "str" \/ Trim(v.s) = <<>>

\* A configuration value that is missing or empty.
MissingOrEmpty(v) == v.t # "str" \/ v.s = <<>>

\* A request that has arrived.
Arrived(r) == req[r].pc # "idle" /\ req[r].method \in Methods

\* C15 as stated: with the API key, the API secret, the base URL or the
\* agent name (in both of its variables) missing or blank, the request has
\* ended with 500 without upstream call and without signing.
C15_Unconfigured ==
  \A r \in DOMAIN req :
    (Arrived(r)
       /\ \/ MissingOrBlank(req[r].env.LIVEKIT_API_KEY)
          \/ MissingOrBlank(req[r].env.LIVEKIT_API_SECRET)
          \/ MissingOrBlank(req[r].env.LIVEKIT_URL)
          \/ /\ MissingOrBlank(req[r].env.LIVEKIT_AGENT_NAME)
             /\ MissingOrBlank(req[r].env.VOICE_AGENT_NAME)) =>
      /\ Done(r) /\ Response(r).code = 500
      /\ req[r].calls = <<>> /\ ~req[r].signed

\* C15 as amended: the request ends with 500, without upstream call and
\* without signing, exactly when the API key, the API secret or the base URL
\* is missing or empty, or the agent name -- LIVEKIT_AGENT_NAME, or
\* VOICE_AGENT_NAME when that one is not set at all -- is missing or blank.
C15_UnconfiguredAmended ==
  \A r \in DOMAIN req :
    Arrived(r) =>
      LET name == IF req[r].env.LIVEKIT_AGENT_NAME.t = "none"
                    THEN req[r].env.VOICE_AGENT_NAME
                    ELSE req[r].env.LIVEKIT_AGENT_NAME
          unconfigured ==
            \/ MissingOrEmpty(req[r].env.LIVEKIT_API_KEY)
            \/ MissingOrEmpty(req[r].env.LIVEKIT_API_SECRET)
            \/ MissingOrEmpty(req[r].env.LIVEKIT_URL)
            \/ MissingOrBlank(name)
      IN /\ unconfigured = (Done(r) /\ Response(r).code = 500)
         /\ unconfigured =>
              /\ req[r].calls = <<>> /\ ~req[r].signed
              /\ Response(r).fields = {}

\* C15's case: a POST ended with 500 because LIVEKIT_AGENT_NAME is set but
\* empty, although VOICE_AGENT_NAME names the agent.
C15_Witness ==
  \E r \in DOMAIN req :
    /\ Finished(r, "POST") /\ Response(r).code = 500
    /\ req[r].env.LIVEKIT_AGENT_NAME = Str(<<>>)
    /\ req[r].env.VOICE_AGENT_NAME = Str(AgentName)
    /\ Truthy(readPayload(req[r].request).room)


\* The room parameter a request supplies: the query parameter of a GET or
\* DELETE, the room member of the JSON body of a POST.
SuppliedRoom(request) ==
  IF request.method = "POST"
    THEN IF request.bodyJson THEN request.bodyRoom ELSE Absent
  ELSE request.queryRoom

ConfigurationComplete(env) == assertEnvConfigured(env) = <<>>

\* C16: with configuration complete, a request whose room parameter is
\* absent or empty has ended with 400 and has issued no upstream call.
C16_MissingRoom ==
  \A r \in DOMAIN req :
    (Arrived(r) /\ ConfigurationComplete(req[r].env)
       /\ MissingOrEmpty(SuppliedRoom(req[r].request))) =>
      /\ Done(r) /\ Response(r).code = 400
      /\ Response(r).text = MISSING_ROOM /\ Response(r).fields = {}
      /\ req[r].calls = <<>> /\ req[r].sent = <<>>

\* C16's case: a POST whose body is not JSON was refused with 400 although
\* its query string names a room.
C16_Witness ==
  \E r \in DOMAIN req :
    /\ Finished(r, "POST") /\ ConfigurationComplete(req[r].env)
    /\ ~req[r].request.bodyJson
    /\ Includes(req[r].request.contentType, APPLICATION_JSON)
    /\ req[r].request.queryRoom = Str(RoomName)
    /\ Response(r).code = 400 /\ Response(r).text = MISSING_ROOM


\* A POST whose JSON body holds a room name and nothing else.
OnlyRoom(request) ==
  /\ request.method = "POST" /\ request.bodyJson
  /\ Includes(request.contentType, APPLICATION_JSON)
  /\ request.bodyRoom.t = "str" /\ request.bodyRoom.s # <<>>
  /\ request.bodyMetadata = Absent

\* The first of two optional settings that is set at all, without blanks
\* around it; empty for none.
Setting(a, b) ==
  IF a.t = "str" THEN Trim(a.s) ELSE IF b.t = "str" THEN Trim(b.s) ELSE <<>>

\* The rooms of a deployment that need no token: its default room, its demo
\* room and "demo-room".
TokenlessRooms(env) ==
  ({Setting(env.VITE_DEFAULT_ROOM, env.VOICE_AGENT_DEFAULT_ROOM),
    Setting(env.VITE_DEMO_ROOM, env.VOICE_AGENT_DEMO_ROOM), DEMO_ROOM})
    \ {<<>>}

\* C17 as stated: with configuration complete, a POST with only a room name
\* for a room without dispatches and participants has returned 200 with
\* active = true, reused = false and a dispatch of the configured agent with
\* an id.
C17_CreateOnEmptyRoom ==
  \A r \in DOMAIN req :
    (Finished(r, "POST") /\ ConfigurationComplete(req[r].env)
       /\ OnlyRoom(req[r].request) /\ req[r].startEmpty) =>
      /\ Response(r).code = 200 /\ Response(r).active
      /\ "reused" \in Response(r).fields /\ ~Response(r).reused
      /\ Len(Response(r).dispatch) = 1
      /\ Response(r).dispatch[1].agentName = AgentName
      /\ Response(r).dispatch[1].id # 0

\* C17 as amended: such a POST for the default room, the demo room or
\* "demo-room" has returned 200 with active = true, agentPresent = false, no
\* reused member, and the dispatch of the configured agent it created, which
\* has an id; for any other room it has returned 400 without upstream call.
C17_CreateOnEmptyRoomAmended ==
  \A r \in DOMAIN req :
    (Finished(r, "POST") /\ ConfigurationComplete(req[r].env)
       /\ OnlyRoom(req[r].request) /\ req[r].startEmpty) =>
      IF Trim(req[r].request.bodyRoom.s) \in TokenlessRooms(req[r].env)
        THEN /\ Response(r).code = 200 /\ Response(r).active
             /\ ~Response(r).agentPresent
             /\ Response(r).fields = CreateFields
             /\ "reused" \notin Response(r).fields
             /\ Len(Response(r).dispatch) = 1
             /\ Response(r).dispatch[1].agentName = AgentName
             /\ Response(r).dispatch[1].id # 0
             /\ OpsOf(req[r].calls) = <<"ListDispatch", "ListParticipants",
                                      "ListDispatch", "CreateDispatch">>
             /\ dispatches = Response(r).dispatch
        ELSE /\ Response(r).code = 400 /\ Response(r).text = TOKEN_REQUIRED
             /\ req[r].calls = <<>> /\ dispatches = <<>>

\* C17's case: a POST with only the name of a room that needs no token has
\* created a dispatch in the empty room.
C17_Witness ==
  \E r \in DOMAIN req :
    /\ Succeeded(r, "POST") /\ OnlyRoom(req[r].request) /\ req[r].startEmpty
    /\ Len(Creates(r)) = 1
    /\ Trim(req[r].request.bodyRoom.s) \in TokenlessRooms(req[r].env)

\* C17's other case: a POST with only a room name was refused for want of a
\* token.
C17_WitnessRefused ==
  \E r \in DOMAIN req :
    /\ Finished(r, "POST") /\ OnlyRoom(req[r].request) /\ req[r].startEmpty
    /\ ConfigurationComplete(req[r].env)
    /\ Response(r).text = TOKEN_REQUIRED


\* A status request has succeeded right after a release that returned 200.
StatusAfterRelease(r) ==
  Succeeded(r, "GET") /\ prev.method = "DELETE" /\ prev.code = 200

\* C18 as stated: the status request that follows a release that returned
\* 200 reports active = false and total = 0.
C18_ReleasedThenStatus ==
  \A r \in DOMAIN req :
    StatusAfterRelease(r) => ~Response(r).active /\ Response(r).total = 0

\* C18 as amended: after such a release the room holds no dispatch of the
\* agent that has an id; the status request counts the agent's dispatches
\* without id, which the release left alone, and reports active = true
\* exactly when one of them is active.
C18_ReleasedThenStatusAmended ==
  \A r \in DOMAIN req :
    StatusAfterRelease(r) =>
      LET left == FilterSeq(dispatches, LAMBDA d : d.agentName = AgentName) IN
        /\ \A i \in 1..Len(dispatches) :
             normalizeAgentName(dispatches[i].agentName)
               = normalizeAgentName(AgentName) => dispatches[i].id = 0
        /\ Response(r).total = Len(left)
        /\ Response(r).active = Some(left, ActiveAsAmended)
        /\ Response(r).active => Response(r).dispatch[1].id = 0

\* C18's case: a release that removed dispatches of the agent returned 200
\* and the status request after it reports nothing left.
C18_Witness ==
  \E r \in DOMAIN req :
    /\ StatusAfterRelease(r) /\ prev.removed >= 2
    /\ ~Response(r).active /\ Response(r).total = 0

\* C18's other case: the release has removed a dispatch and the status
\* request after it still reports an active one, which has no id.
C18_WitnessLeft ==
  \E r \in DOMAIN req :
    /\ StatusAfterRelease(r) /\ prev.removed >= 1
    /\ Response(r).active /\ Response(r).total = 1


(***************************************************************************)
(* Status over rooms whose jobs have failed: the jobs carry errors and      *)
(* times, and the upstream may end a running job with a failure.            *)
(***************************************************************************)
MaxStatusJobs == 2

At(k) == [NoTimes EXCEPT !.updatedAt = Num(k)]

EpochSecond(d) == <<EPOCH_PREFIX, d, "Z">>

Detail(n) == Str(<<"e", n>>)

\* Jobs whose time is read from different members and in different forms:
\* no time at all, a number, a numeric text, a text that is no number before
\* a later member, an empty text (Number('') is 0) before a later member, a
\* date.
TimedJobs ==
  { JobState(Num(3), Detail("1"), NoTimes),
    JobState(Str(<<" ", "j", "s", "_", "f", "a", "i", "l", "e", "d">>),
             Detail("2"), At(2)),
    JobState(Num(3), Detail("3"), [NoTimes EXCEPT !.updated_at = Str(<<"2">>)]),
    JobState(Num(3), Detail("4"),
             [NoTimes EXCEPT !.updatedAt = Str(<<"s", "o", "o", "n">>),
                             !.endedAt = Num(3)]),
    JobState(Num(3), Detail("5"),
             [NoTimes EXCEPT !.updatedAt = Str(<<>>), !.endedAt = Num(3)]),
    JobState(Num(1), Absent, NoTimes),
    JobState(Num(1), Absent, At(1)),
    JobState(Str(JS_RUNNING), Absent, At(2)),
    JobState(Num(1), Absent,
             [NoTimes EXCEPT !.started_at = Str(EpochSecond("1"))]),
    JobState(Num(0), Absent, [NoTimes EXCEPT !.ended_at = Str(<<"3">>)]),
    JobState(Num(2), Absent, At(9)) }

\* The error details of failed jobs.
Details ==
  { Absent, Num(7), Str(<<>>), Str(Blank),
    Str(<<"A", "P", "I", " ", "k", "e", "y", " ", "n", "o", "t", " ", "v", "a", "l", "i", "d", ".", " ", "P", "a", "s", "s", " ", "a", " ", "v", "a", "l", "i", "d", " ", "k", "e", "y", ".">>),
    Str(<<"A", "P", "I", " ", "K", "e", "y", " ", "N", "o", "t", " ", "V", "a", "l", "i", "d", ":", " ", "p", "e", "r", "m", "i", "s", "s", "i", "o", "n">>),
    Str(<<"u", "s", "e", "r", " ", "n", "o", "t", " ", "e", "n", "t", "i", "t", "l", "e", "d">>),
    Str(<<"P", "e", "r", "m", "i", "s", "s", "i", "o", "n", " ", "d", "e", "n", "i", "e", "d">>),
    Str(<<"a", "p", "i", " ", "k", "e", "y", " ", "i", "n", "v", "a", "l", "i", "d">>),
    Str(<<" ", "b", "o", "o", "m", " ">>),
    Str(<<"n", "o", "t", " ", "e", "n", "t", "i", "t", "l", "e", "d", ";", " ", "A", "P", "I", " ", "k", "e", "y", " ", "n", "o", "t", " ", "v", "a", "l", "i", "d">>) }

DetailedJobs == {JobState(Num(3), detail, At(1)) : detail \in Details}

\* The job lists of a room: timed jobs, or a failed job with one of the
\* details and at most one timed job after it.
RECURSIVE ListsUpTo(_, _)
ListsUpTo(S, n) ==
  IF n = 0 THEN {<<>>}
  ELSE LET shorter == ListsUpTo(S, n - 1) IN
         shorter \cup {Append(s, x) : s \in shorter, x \in S}

StatusJobLists ==
  ListsUpTo(TimedJobs, MaxStatusJobs)
    \cup {<<job>> : job \in DetailedJobs}
    \cup {<<job, other>> : job \in DetailedJobs, other \in TimedJobs}

\* The jobs belong to one dispatch of the agent or to one dispatch each; the
\* room may also hold a dispatch of another agent with a failed job.
OneDispatch(jobs) == <<Dispatch(1, AgentName, Absent, jobs)>>

DispatchEach(jobs) ==
  [i \in 1..Len(jobs) |-> Dispatch(i, AgentName, Absent, <<jobs[i]>>)]

ForeignFailed ==
  Dispatch(MaxStatusJobs + 1, OtherAgent, Absent,
           <<JobState(Num(3), Detail("9"), At(9))>>)

InitStatusRooms ==
  UNION {{OneDispatch(jobs), DispatchEach(jobs),
          <<ForeignFailed>> \o OneDispatch(jobs)} : jobs \in StatusJobLists}

InitStatus ==
  /\ dispatches \in InitStatusRooms
  /\ participants = {}
  /\ req = [r \in {"r1"} |-> IdleRequest]
  /\ prev = NoPrev
  /\ orphans = {}
  /\ faults \in {0, 1}

StartStatus == \E r \in DOMAIN req : Start(r, "GET")

\* The upstream ends a running or pending job with a failure.
EndJob(i, k, detail) ==
  /\ i \in 1..Len(dispatches)
  /\ k \in 1..Len(dispatches[i].jobs)
  /\ normalizeStatus(dispatches[i].jobs[k].status) \in {JS_RUNNING, JS_PENDING}
  /\ dispatches' = [dispatches EXCEPT ![i].jobs[k].status = Num(3),
                                      ![i].jobs[k].error = detail]
  /\ UNCHANGED <<participants, req, prev, orphans, faults>>

UpstreamEndsJob ==
  \E i \in 1..Len(dispatches) : \E k \in 1..Len(dispatches[i].jobs) :
    EndJob(i, k, Detail("0"))

NextStatus ==
  \/ StartStatus
  \/ StatusLists
  \/ StatusResponds
  \/ UpstreamEndsJob

SpecStatus == InitStatus /\ [][NextStatus]_vars

\* The jobs of the dispatches of the agent in the listing a status request
\* received.
ListedJobs(r) ==
  FlatMapJobs(FilterSeq(req[r].allDispatches, LAMBDA d : d.agentName = AgentName))

\* A status of FAILED, by number or by name.
IsFailed(st) ==
  \/ st.t = "num" /\ st.n = 3
  \/ st.t = "str" /\ ToLowerCase(Trim(st.s)) = ToLowerCase(JS_FAILED)

\* The detail of a job: its error text without the blanks around it, if it
\* has one.
DetailOf(job) ==
  IF job.error.t = "str" /\ Trim(job.error.s) # <<>>
    THEN Str(Trim(job.error.s)) ELSE Absent

\* The status request has reported an error.
Reported(r) == Response(r).errorCode # Absent

\* The failed jobs of a list that no failed job of the list is later than.
LatestFailed(jobs) ==
  {k \in 1..Len(jobs) :
     /\ IsFailed(jobs[k].status)
     /\ \A m \in 1..Len(jobs) :
          IsFailed(jobs[m].status) =>
            pickTimestamp(jobs[k]) >= pickTimestamp(jobs[m])}

\* C19: the error code a status request reports with the detail of a failed
\* job is invalid_api_key when the lower-cased detail contains "api key not
\* valid"; else permission_denied when it contains "not entitled" or
\* "permission"; else dispatch_failed, as it is for a failed job without
\* detail or with a blank one.
C19_ErrorCode ==
  \A r \in DOMAIN req :
    (Succeeded(r, "GET") /\ Reported(r)) =>
      \E k \in LatestFailed(ListedJobs(r)) :
        LET detail == ListedJobs(r)[k].error
            blank == detail.t # "str" \/ Trim(detail.s) = <<>>
            lower == ToLowerCase(detail.s)
        IN /\ Response(r).errorDetail = DetailOf(ListedJobs(r)[k])
           /\ Response(r).errorCode =
                IF blank THEN Str(DEFAULT_ERROR_CODE)
                ELSE IF Includes(lower, API_KEY_NOT_VALID)
                  THEN Str(INVALID_API_KEY)
                ELSE IF Includes(lower, NOT_ENTITLED) \/ Includes(lower, PERMISSION)
                  THEN Str(PERMISSION_DENIED)
                ELSE Str(DEFAULT_ERROR_CODE)

\* C19's case: a detail in capitals that holds both "api key not valid" and
\* "permission" has been reported as invalid_api_key.
C19_Witness ==
  \E r \in DOMAIN req :
    /\ Succeeded(r, "GET")
    /\ Response(r).errorCode = Str(INVALID_API_KEY)
    /\ Response(r).errorDetail.t = "str"
    /\ Includes(ToLowerCase(Response(r).errorDetail.s), PERMISSION)
    /\ ~Includes(Response(r).errorDetail.s, API_KEY_NOT_VALID)


\* The listed jobs of the agent that are running or pending.
LiveAt(jobs) == {k \in 1..Len(jobs) : RunningOrPending(jobs[k].status)}

NoErrorReported(r) ==
  /\ Response(r).error = Absent /\ Response(r).errorCode = Absent
  /\ Response(r).errorDetail = Absent

\* C20 as stated: status reports an error exactly when the agent's listed
\* jobs hold a FAILED job and no RUNNING or PENDING job with a later time
\* than the most recent FAILED job; the error is that of a most recent
\* FAILED job, and otherwise error, errorCode and errorDetail are all null.
C20_ErrorSurfaced ==
  \A r \in DOMAIN req :
    Succeeded(r, "GET") =>
      LET jobs == ListedJobs(r)
          latest == LatestFailed(jobs)
          due == /\ latest # {}
                 /\ \A k \in LiveAt(jobs) : \A f \in latest :
                      ~(pickTimestamp(jobs[k]) > pickTimestamp(jobs[f]))
      IN /\ Reported(r) = due
         /\ Reported(r) =>
              /\ Response(r).error # Absent
              /\ \E f \in latest : Response(r).errorDetail = DetailOf(jobs[f])
         /\ ~Reported(r) => NoErrorReported(r)

\* C20 as amended: status reports an error exactly when the agent's listed
\* jobs hold a FAILED job and no RUNNING or PENDING job whose time is that of
\* the most recent FAILED job or later, a job without time having time 0;
\* the error is that of the most recent FAILED job, the first listed of
\* several, and otherwise error, errorCode and errorDetail are all null.
C20_ErrorSurfacedAmended ==
  \A r \in DOMAIN req :
    Succeeded(r, "GET") =>
      LET jobs == ListedJobs(r)
          latest == LatestFailed(jobs)
          due == /\ latest # {}
                 /\ \A k \in LiveAt(jobs) : \A f \in latest :
                      ~(pickTimestamp(jobs[k]) >= pickTimestamp(jobs[f]))
      IN /\ Reported(r) = due
         /\ Reported(r) =>
              LET first == CHOOSE f \in latest : \A g \in latest : f <= g IN
                /\ Response(r).errorDetail = DetailOf(jobs[first])
                /\ Response(r).errorCode = Str(deriveErrorCode(DetailOf(jobs[first])))
                /\ Response(r).error =
                     Str(buildUserMessage(deriveErrorCode(DetailOf(jobs[first])),
                                          DetailOf(jobs[first])))
         /\ ~Reported(r) => NoErrorReported(r)

\* C20's case: the agent's jobs hold a FAILED job and an older RUNNING one,
\* in two dispatches, and status has reported the failed job's error.
C20_Witness ==
  \E r \in DOMAIN req :
    /\ Succeeded(r, "GET") /\ Reported(r)
    /\ Len(req[r].allDispatches) = 2
    /\ \E k \in LiveAt(ListedJobs(r)) : \E f \in LatestFailed(ListedJobs(r)) :
         /\ pickTimestamp(ListedJobs(r)[k]) < pickTimestamp(ListedJobs(r)[f])
         /\ k < f

\* C20's case of equal times: a FAILED job and a RUNNING job of the same
\* time, and no error reported.
C20_WitnessTie ==
  \E r \in DOMAIN req :
    /\ Succeeded(r, "GET") /\ ~Reported(r)
    /\ \E k \in LiveAt(ListedJobs(r)) : \E f \in LatestFailed(ListedJobs(r)) :
         pickTimestamp(ListedJobs(r)[k]) = pickTimestamp(ListedJobs(r)[f])


\* Every upstream call the request has had answered was answered with
\* success.
AllCallsSucceeded(r) ==
  \A i \in 1..Len(req[r].calls) :
    req[r].calls[i].st >= 200 /\ req[r].calls[i].st <= 299

\* C21: a status request whose two List calls succeeded has answered 200
\* with status "ok", whether or not a job of the agent has failed, and in its
\* response error and errorCode are both null or both not null.
C21_FailedJobIsNoFailure ==
  \A r \in DOMAIN req :
    (Finished(r, "GET") /\ AllCallsSucceeded(r)) =>
      /\ OpsOf(req[r].calls) = <<"ListDispatch", "ListParticipants">>
      /\ Response(r).code = 200
      /\ Response(r).status = <<"ok">> /\ "status" \in Response(r).fields
      /\ {"error", "errorCode", "errorDetail"} \subseteq Response(r).fields
      /\ (Response(r).error = Absent) = (Response(r).errorCode = Absent)

\* C21's case: the agent's only job has failed, no other job is there, and
\* status has answered 200 with the error in its body.
C21_Witness ==
  \E r \in DOMAIN req :
    /\ Finished(r, "GET") /\ AllCallsSucceeded(r)
    /\ Len(ListedJobs(r)) = 1 /\ IsFailed(ListedJobs(r)[1].status)
    /\ Response(r).code = 200 /\ Response(r).error # Absent
    /\ Response(r).errorCode # Absent


\* C22: a dispatch is the agent's exactly when its agentName is the
\* configured name up to letter case: ensure-active deletes no such dispatch
\* as another agent's, status counts every such dispatch in total, and
\* release deletes every such dispatch that has an id.
C22_AgentNameIgnoringCase ==
  \A r \in DOMAIN req :
    /\ (req[r].method = "POST" /\ req[r].pc = "DeleteForeign") =>
         \A i \in 1..Len(req[r].allDispatches) :
           (req[r].allDispatches[i].id # 0
              /\ req[r].allDispatches[i].id \in req[r].inflight)
             => ~OfAgent(req[r].allDispatches[i])
    /\ Succeeded(r, "GET") =>
         Response(r).total = Count(req[r].allDispatches, OfAgent)
    /\ (req[r].method = "DELETE" /\ req[r].pc = "DeleteDispatch") =>
         req[r].matches
           = SelectSeq(req[r].allDispatches, LAMBDA d : OfAgent(d) /\ d.id # 0)


\* C23 as stated: a 200 response to ensure-active carries every member of
\* the status response and the reused flag.
C23_EnsureShape ==
  \A r \in DOMAIN req :
    Succeeded(r, "POST") =>
      {"status", "active", "agentPresent", "dispatch", "total", "error",
       "errorCode", "errorDetail", "reused"} \subseteq Response(r).fields

\* C23 as amended: a 200 response to ensure-active carries status, dispatch,
\* active and agentPresent; on the two reuse paths it also carries reused,
\* which is true; on the create path it carries no reused member; it never
\* carries total, error, errorCode or errorDetail.
C23_EnsureShapeAmended ==
  \A r \in DOMAIN req :
    Succeeded(r, "POST") =>
      /\ Response(r).status = <<"ok">> /\ Response(r).active
      /\ IF Creates(r) = <<>>
           THEN /\ Response(r).fields
                     = {"status", "dispatch", "active", "agentPresent", "reused"}
                /\ Response(r).reused
           ELSE Response(r).fields
                  = {"status", "dispatch", "active", "agentPresent"}

\* C23's case: ensure-active has created a dispatch and answered 200.
C23_Witness ==
  \E r \in DOMAIN req :
    /\ Succeeded(r, "POST") /\ Len(Creates(r)) = 1
    /\ Response(r).dispatch # <<>> /\ "reused" \notin Response(r).fields

\* C23's other case: ensure-active has answered 200 on a reuse path.
C23_WitnessReuse ==
  \E r \in DOMAIN req :
    /\ Succeeded(r, "POST") /\ Creates(r) = <<>>
    /\ "reused" \in Response(r).fields /\ "total" \notin Response(r).fields


(***************************************************************************)
(* Two requests of any kind for the same room, each slot serving one        *)
(* request after another, their steps interleaved in every order.           *)
(***************************************************************************)
InitPair ==
  /\ dispatches \in {<<>>, <<Dispatch(1, AgentName, Absent, <<Job(Num(1))>>)>>,
                      <<Dispatch(1, AgentName, Absent, <<>>)>>,
                      <<Dispatch(1, OtherAgent, Absent, <<Job(Num(1))>>)>>}
  /\ participants \in {{}, {AgentName}}
  /\ req = [r \in Requests |-> IdleRequest]
  /\ prev = NoPrev
  /\ orphans = {}
  /\ faults = 0

\* A request of any kind arrives; one request is served before the two
\* that are compared.
StartPair ==
  \E r \in DOMAIN req, m \in Methods :
    /\ req[r].pc = "idle" \/ prev.method = "NONE"
    /\ Start(r, m)

NextPair ==
  \/ StartPair
  \/ Handler

SpecPair == InitPair /\ [][NextPair]_vars

\* What a request was given: the request itself, the configuration and the
\* upstream's answers so far, with the listings they carried.
Given(r) ==
  <<req[r].method, req[r].request, req[r].env, req[r].calls,
    req[r].allDispatches, req[r].existing, req[r].participants>>

\* What a request has done with it: where it stands, the calls it has
\* issued that are not answered yet, what it sent and what it responded.
Conduct(r) ==
  <<req[r].pc, req[r].inflight, req[r].kicks, req[r].sent, req[r].resp,
    req[r].ours, req[r].matches, req[r].agentPresent, req[r].metadata,
    req[r].signed>>

RunRequests ==
  {RoomRequest(m) : m \in Methods}
  \cup {Request("PUT", <<>>, Str(RoomName), Absent, FALSE, Absent, Absent),
        Request("GET", <<>>, Absent, Absent, FALSE, Absent, Absent)}

InitRun ==
  /\ dispatches \in
       {<<>>,
        <<Dispatch(1, OtherAgent, Absent, <<>>), Dispatch(2, OtherAgent, Absent, <<>>)>>,
        <<Dispatch(1, AgentName, Absent, <<>>), Dispatch(2, AgentName, Absent, <<>>)>>,
        <<Dispatch(1, AgentName, Absent, <<Job(Num(1))>>)>>}
  /\ participants \in {{}, {AgentName}}
  /\ req = [r \in {"r1"} |-> IdleRequest]
  /\ prev = NoPrev
  /\ orphans = {}
  /\ faults \in {0, 1}

ArrivesRun ==
  \E r \in DOMAIN req, env \in {ConfiguredEnv, NoEnv}, request \in RunRequests :
    req[r].pc = "idle" /\ Receive(r, env, request)

NextRun ==
  \/ ArrivesRun
  \/ Handler
  \/ UpstreamDeletesOrphan

\* Every call the request issues is eventually answered.
SpecRun ==
  /\ InitRun /\ [][NextRun]_vars
  /\ WF_vars(Handler)
  /\ WF_vars(UpstreamDeletesOrphan)

Busy(r) == req[r].pc \notin {"idle", "done"}

\* The upstream calls one pass can issue: the listings, one create, and one
\* delete or removal for each entry of a listing.
CallBound(r) ==
  4 + Len(req[r].allDispatches) + Len(req[r].existing) + Len(req[r].matches)
    + Cardinality(req[r].participants)

OneResponse(r) ==
  /\ Len(req[r].resp) = 1
  /\ Response(r).code \in {200, 400, 405, 500, 502}

NoneUnanswered(r) == req[r].inflight = {} /\ req[r].kicks = {} /\ orphans = {}

\* C25 as stated: every request that has started reaches its response; it
\* has then exactly one response, with status 200, 400, 405, 500 or 502, has
\* issued a bounded number of upstream calls, and none of its calls is
\* still unanswered.
C25_RunsToCompletion ==
  /\ Busy("r1") ~> Done("r1")
  /\ [](\A r \in DOMAIN req :
          /\ Len(req[r].calls) <= CallBound(r)
          /\ Done(r) => OneResponse(r) /\ NoneUnanswered(r))

\* What does hold: the request reaches its one response within the bound,
\* and a request that responds 200 has every call answered.
RunsToResponse ==
  /\ Busy("r1") ~> Done("r1")
  /\ [](\A r \in DOMAIN req :
          /\ Len(req[r].calls) <= CallBound(r)
          /\ Done(r) => OneResponse(r)
          /\ (Done(r) /\ Response(r).code = 200) => NoneUnanswered(r))


(***************************************************************************)
(* GET /token: the endpoint that hands a participant its access token.      *)
(* A token is kept as the claims it carries and the secret it is signed     *)
(* with; the random bytes of the suffix are an input of the request.        *)
(***************************************************************************)
SUFFIX_ALPHABET ==
  <<"2", "3", "4", "5", "6", "7", "8", "9", "A", "B", "C", "D", "E", "F", "G",
    "H", "J", "K", "L", "M", "N", "P", "Q", "R", "S", "T", "U", "V", "W", "X",
    "Y", "Z">>

SuffixLength == 4

DEFAULT_NAME == <<"u", "s", "e", "r">>

ENV_NOT_CONFIGURED == <<"LiveKit environment not configured">>

MISSING_ROOM_PARAMETER == <<"Missing room parameter">>

randomSuffixThree(bytes) ==
  [i \in 1..(SuffixLength - 1) |->
     SUFFIX_ALPHABET[(bytes[i] % Len(SUFFIX_ALPHABET)) + 1]]

\* Array.from(bytes, value => alphabet[value % alphabet.length]).join('')
randomSuffix(bytes) ==
  [i \in 1..SuffixLength |-> SUFFIX_ALPHABET[(bytes[i] % Len(SUFFIX_ALPHABET)) + 1]]

\* The token endpoint's assertEnvConfigured: key, secret and URL.
assertTokenEnvConfigured(env) ==
  IF \/ ~Truthy(env.LIVEKIT_API_KEY)
     \/ ~Truthy(env.LIVEKIT_API_SECRET)
     \/ ~Truthy(env.LIVEKIT_URL)
    THEN ENV_NOT_CONFIGURED
    ELSE <<>>

\* createParticipantToken(env, room, identity)
createParticipantToken(env, room, identity) ==
  [iss |-> env.LIVEKIT_API_KEY.s, sub |-> identity, aud |-> <<"livekit">>,
   room |-> room, roomJoin |-> TRUE, canPublish |-> TRUE,
   canSubscribe |-> TRUE, canPublishData |-> TRUE,
   signedWith |-> env.LIVEKIT_API_SECRET.s]

NoToken == createParticipantToken(NoEnv, <<>>, <<>>)

IdleToken ==
  [pc |-> "idle", env |-> NoEnv, room |-> Absent, name |-> Absent,
   bytes |-> <<>>, identity |-> <<>>, code |-> 0, text |-> <<>>,
   token |-> NoToken, serverUrl |-> <<>>]

\* The request arrives: the configuration and the room are examined and the
\* identity is drawn.
TokenReceive(r, env, room, name, bytes) ==
  LET configError == assertTokenEnvConfigured(env)
      rec == [IdleToken EXCEPT !.env = env, !.room = room, !.name = name,
                               !.bytes = bytes]
  IN /\ req[r].pc = "idle"
     /\ Upd(r, IF configError # <<>>
                 THEN [rec EXCEPT !.pc = "done", !.code = 500, !.text = configError]
               ELSE IF ~Truthy(room)
                 THEN [rec EXCEPT !.pc = "done", !.code = 400,
                                  !.text = MISSING_ROOM_PARAMETER]
               ELSE [rec EXCEPT
                       !.pc = "Sign",
                       !.identity = Coalesce(name, Str(DEFAULT_NAME)).s
                                      \o <<"-">> \o randomSuffix(bytes)])
     /\ UNCHANGED <<dispatches, participants, prev, orphans, faults>>

\* const token = await createParticipantToken(env, room, identity); respond
TokenSign(r) ==
  /\ req[r].pc = "Sign"
  /\ Upd(r, [req[r] EXCEPT
               !.pc = "done", !.code = 200,
               !.token = createParticipantToken(req[r].env, req[r].room.s,
                                                req[r].identity),
               !.serverUrl = req[r].env.LIVEKIT_URL.s])
  /\ UNCHANGED <<dispatches, participants, prev, orphans, faults>>

ByteSamples == {0, 33, 255}

TokenEnvs ==
  {ConfiguredEnv, NoEnv,
   [ConfiguredEnv EXCEPT !.LIVEKIT_API_KEY = Absent],
   [ConfiguredEnv EXCEPT !.LIVEKIT_API_SECRET = Str(<<>>)],
   [ConfiguredEnv EXCEPT !.LIVEKIT_URL = Absent]}

TokenNames == {Absent, Str(<<>>), Str(<<"a", "n", "n">>)}

InitToken ==
  /\ dispatches = <<>>
  /\ participants = {}
  /\ req = [r \in {"t1"} |-> IdleToken]
  /\ prev = NoPrev
  /\ orphans = {}
  /\ faults = 0

TokenArrives ==
  \E r \in DOMAIN req, env \in TokenEnvs, room \in {Absent, Str(<<>>), Str(RoomName)},
     name \in TokenNames, bytes \in [1..SuffixLength -> ByteSamples] :
    TokenReceive(r, env, room, name, bytes)

TokenSigned == \E r \in DOMAIN req : TokenSign(r)

NextToken ==
  \/ TokenArrives
  \/ TokenSigned

SpecToken == InitToken /\ [][NextToken]_vars

\* The name given, "user" when none was given.
GivenName(r) == IF req[r].name.t = "none" THEN DEFAULT_NAME ELSE req[r].name.s

TokenConfigured(env) ==
  ~MissingOrEmpty(env.LIVEKIT_API_KEY) /\ ~MissingOrEmpty(env.LIVEKIT_API_SECRET)
    /\ ~MissingOrEmpty(env.LIVEKIT_URL)

\* C26: a token request that has been answered got 500 when the API key,
\* the secret or the URL is missing, else 400 when the room is missing, and
\* else 200 with serverUrl the configured URL, identity the given name
\* (default "user"), "-" and exactly 4 characters of the suffix alphabet,
\* and a token whose subject is that identity and whose room is the room
\* asked for, signed with the configured secret.
C26_Token ==
  \A r \in DOMAIN req :
    req[r].pc = "done" =>
      IF ~TokenConfigured(req[r].env) THEN req[r].code = 500
      ELSE IF MissingOrEmpty(req[r].room) THEN req[r].code = 400
      ELSE /\ req[r].code = 200
           /\ req[r].serverUrl = req[r].env.LIVEKIT_URL.s
           /\ Len(req[r].identity) = Len(GivenName(r)) + 1 + 4
           /\ SubSeq(req[r].identity, 1, Len(GivenName(r)) + 1)
                = GivenName(r) \o <<"-">>
           /\ \A i \in (Len(GivenName(r)) + 2)..Len(req[r].identity) :
                \E k \in 1..Len(SUFFIX_ALPHABET) :
                  req[r].identity[i] = SUFFIX_ALPHABET[k]
           /\ req[r].token.sub = req[r].identity
           /\ req[r].token.room = req[r].room.s
           /\ req[r].token.signedWith = req[r].env.LIVEKIT_API_SECRET.s

\* C26's case: a token was issued to a request that gave no name, with
\* random bytes beyond the alphabet's length.
C26_Witness ==
  \E r \in DOMAIN req :
    /\ req[r].pc = "done" /\ req[r].code = 200
    /\ req[r].name = Absent
    /\ req[r].bytes = <<255, 33, 0, 255>>
    /\ req[r].identity = <<"u", "s", "e", "r", "-", "Z", "3", "2", "Z">>

\* A configured token request refused for its empty room parameter.
C26_WitnessRefused ==
  \E r \in DOMAIN req :
    /\ req[r].pc = "done" /\ req[r].code = 400
    /\ req[r].room = Str(<<>>)


(***************************************************************************)
(* Agent participants.                                                      *)
(***************************************************************************)
\* A participant that is the agent: its identity equals the configured agent
\* name ignoring letter case, or starts with "agent-".
AgentParticipant(p) ==
  \/ ToLowerCase(Trim(p)) = ToLowerCase(AgentName)
  \/ StartsWith(Trim(p), AGENT_PREFIX)

\* The request has been given the room's participants.
ListedParticipants(r) == Len(CallsOf(r, "ListParticipants")) = 1

\* The ids of the listed dispatches of the agent that the request has
\* issued a delete for.
OwnDeleted(r) ==
  {c.id : c \in {Deletes(r)[i] : i \in 1..Len(Deletes(r))}}
    \cap IdsOf(SelectSeq(req[r].allDispatches, OfAgent))

\* C27: an ensure-active call that re-listed no active dispatch of the agent
\* while an agent participant was connected has returned 200 with reused and
\* agentPresent true and no dispatch, and has issued no CreateDispatch and no
\* delete of a dispatch of the agent.
C27_AgentPresentPath ==
  \A r \in DOMAIN req :
    (/\ Finished(r, "POST")
     /\ Len(CallsOf(r, "ListDispatch")) >= 2
     /\ ~Some(req[r].existing, isActiveDispatch)
     /\ \E p \in req[r].participants : AgentParticipant(p))
      => /\ Response(r).code = 200
         /\ Response(r).reused /\ Response(r).agentPresent
         /\ Response(r).dispatch = <<>>
         /\ Creates(r) = <<>>
         /\ OwnDeleted(r) = {}

\* The same for a participant that the handler's own test recognises, and
\* dispatches that carry the configured name letter for letter.
AgentPresentPathAsCoded ==
  \A r \in DOMAIN req :
    (/\ Finished(r, "POST")
     /\ Len(CallsOf(r, "ListDispatch")) >= 2
     /\ ~Some(req[r].existing, isActiveDispatch)
     /\ \E p \in req[r].participants : IsAgentParticipant(p, AgentName))
      => /\ Response(r).code = 200
         /\ Response(r).reused /\ Response(r).agentPresent
         /\ Response(r).dispatch = <<>>
         /\ Creates(r) = <<>>
         /\ \A i \in 1..Len(Deletes(r)) :
              \A j \in 1..Len(req[r].allDispatches) :
                req[r].allDispatches[j].id = Deletes(r)[i].id
                  => ~NamedAsAgent(req[r].allDispatches[j])

\* C30: status, ensure-active and release take the same participants for the
\* agent: status reports agentPresent, ensure-active holds agentPresent and
\* release removes a participant exactly when a listed identity equals the
\* configured agent name ignoring letter case or starts with "agent-".
C30_ParticipantsAgree ==
  \A r \in DOMAIN req :
    /\ Succeeded(r, "GET") =>
         (Response(r).agentPresent
            <=> \E p \in req[r].participants : AgentParticipant(p))
    /\ (req[r].method = "POST" /\ ListedParticipants(r)) =>
         (req[r].agentPresent
            <=> \E p \in req[r].participants : AgentParticipant(p))
    /\ Succeeded(r, "DELETE") =>
         Len(CallsOf(r, "RemoveParticipant"))
           = Cardinality({p \in req[r].participants : AgentParticipant(p)})

\* Release alone follows the rule.
ReleaseFollowsRule ==
  \A r \in DOMAIN req :
    Succeeded(r, "DELETE") =>
      Len(CallsOf(r, "RemoveParticipant"))
        = Cardinality({p \in req[r].participants : AgentParticipant(p)})


(***************************************************************************)
(* Ensure-active on rooms that hold stale dispatches of the agent, with and *)
(* without id, one call after the other.                                    *)
(***************************************************************************)
InitCreate ==
  /\ dispatches \in
       {<<>>,
        <<Dispatch(1, AgentName, Absent, <<>>), Dispatch(2, AgentName, Absent, <<>>)>>,
        <<Dispatch(1, AgentName, Absent, <<>>), Dispatch(0, AgentName, Absent, <<>>)>>,
        <<Dispatch(0, AgentName, Absent, <<>>)>>,
        <<Dispatch(1, AgentNameUpper, Absent, <<>>), Dispatch(2, AgentName, Absent, <<>>),
          Dispatch(3, OtherAgent, Absent, <<Job(Num(1))>>)>>,
        <<Dispatch(1, AgentName, Absent, <<Job(Num(1))>>)>>}
  /\ participants \in {{}, {HumanIdentity}, {AgentName}}
  /\ req = [r \in {"r1"} |-> IdleRequest]
  /\ prev = NoPrev
  /\ orphans = {}
  /\ faults = 0

\* The first call and one call after it.
StartEnsureTwice ==
  \E r \in DOMAIN req :
    /\ req[r].pc = "idle" \/ prev.method = "NONE"
    /\ Start(r, "POST")

NextCreate ==
  \/ StartEnsureTwice
  \/ EnsureLists
  \/ EnsureListsParticipants
  \/ UpstreamDeletes
  \/ EnsureRelists
  \/ EnsureCreates

SpecCreate == InitCreate /\ [][NextCreate]_vars

\* The positions in the request's call log of the calls of an operation.
CallIndexesOf(r, op) == {i \in 1..Len(req[r].calls) : req[r].calls[i].op = op}

\* An ensure-active call that has responded after re-listing no active
\* dispatch of the agent, with no agent participant listed.
TookCreatePath(r) ==
  /\ Succeeded(r, "POST")
  /\ Len(CallsOf(r, "ListDispatch")) >= 2
  /\ ~Some(req[r].existing, isActiveDispatch)
  /\ ~\E p \in req[r].participants : AgentParticipant(p)

\* A DeleteDispatch for dispatch d was answered before the CreateDispatch.
DeletedBeforeCreate(r, d) ==
  \E j \in CallIndexesOf(r, "DeleteDispatch") :
    /\ req[r].calls[j].id = d.id
    /\ \A k \in CallIndexesOf(r, "CreateDispatch") : j < k

CreatedOnceForAgent(r) ==
  /\ Len(Creates(r)) = 1
  /\ Len(req[r].sent) = 1
  /\ req[r].sent[1].agentName = AgentName

\* C28 as stated: on the create path a DeleteDispatch has been issued for
\* every re-listed dispatch of the agent, and after them exactly one
\* CreateDispatch carrying the configured agent name; no ensure-active call
\* issues more than one CreateDispatch.
C28_CreatePath ==
  \A r \in DOMAIN req :
    /\ req[r].method = "POST" => Len(Creates(r)) <= 1
    /\ TookCreatePath(r) =>
         /\ \A i \in 1..Len(req[r].existing) :
              DeletedBeforeCreate(r, req[r].existing[i])
         /\ CreatedOnceForAgent(r)

\* C28 as amended: the DeleteDispatch calls are those for the re-listed
\* dispatches that have an id; a dispatch without id is left in place.
C28_CreatePathAmended ==
  \A r \in DOMAIN req :
    /\ req[r].method = "POST" => Len(Creates(r)) <= 1
    /\ TookCreatePath(r) =>
         /\ \A i \in 1..Len(req[r].existing) :
              req[r].existing[i].id # 0
                => DeletedBeforeCreate(r, req[r].existing[i])
         /\ Len(Deletes(r)) =
              Count(req[r].allDispatches, LAMBDA d : d.agentName # <<>>
                                                    /\ d.agentName # AgentName
                                                    /\ d.id # 0)
              + Count(req[r].existing, LAMBDA d : d.id # 0)
         /\ CreatedOnceForAgent(r)

\* C28's case: a call that found two stale dispatches of the agent has
\* deleted both and created one.
C28_Witness ==
  \E r \in DOMAIN req :
    /\ TookCreatePath(r)
    /\ Len(req[r].existing) = 2
    /\ Len(Deletes(r)) = 2
    /\ Len(Creates(r)) = 1

\* A call that found a stale dispatch without id has deleted the other one
\* only.
C28_WitnessLeft ==
  \E r \in DOMAIN req :
    /\ TookCreatePath(r)
    /\ Len(req[r].existing) = 2
    /\ Len(Deletes(r)) = 1
    /\ Some(dispatches, LAMBDA d : d.id = 0)


(***************************************************************************)
(* The order of the calls of one ensure-active pass.                        *)
(***************************************************************************)
\* The ids of the listed dispatches that the pass deletes as another
\* agent's, and of the re-listed ones it deletes as stale.
ConflictingIds(r) ==
  IdsOf(SelectSeq(req[r].allDispatches,
                  LAMBDA d : d.agentName # <<>> /\ d.agentName # AgentName
                             /\ d.id # 0))

RelistedStaleIds(r) == IdsOf(SelectSeq(req[r].existing, LAMBDA d : d.id # 0))

\* The DeleteDispatch for id was answered before the call at position k.
DeleteAnsweredBefore(r, id, k) ==
  \E j \in CallIndexesOf(r, "DeleteDispatch") : req[r].calls[j].id = id /\ j < k

\* The position of the re-listing: the second ListDispatch.
RelistIndexes(r) == CallIndexesOf(r, "ListDispatch") \ {1}

\* The re-listing comes after the answer to every delete of a foreign
\* dispatch, and CreateDispatch after the answer to every delete of a stale
\* one.
WritesAwaited(r) ==
  /\ \A k \in RelistIndexes(r) :
       \A id \in ConflictingIds(r) : DeleteAnsweredBefore(r, id, k)
  /\ \A k \in CallIndexesOf(r, "CreateDispatch") :
       /\ RelistIndexes(r) # {}
       /\ \A j \in RelistIndexes(r) : j < k
       /\ \A id \in RelistedStaleIds(r) : DeleteAnsweredBefore(r, id, k)

\* The deletes one step has issued can be answered in any order.
AnyOrder(r) ==
  req[r].pc \in {"DeleteForeign", "DeleteStale"} =>
    \A id \in req[r].inflight : ENABLED DeleteAnswered(r, id, Answer(200, <<>>))

\* C29 as stated: in one ensure-active pass the re-listing is issued after
\* every delete of a foreign dispatch has been answered, the participants
\* are listed after those deletes as well, CreateDispatch is issued after
\* every delete of a stale dispatch has been answered, and the deletes of
\* one step can be answered in any order.
C29_Ordering ==
  \A r \in DOMAIN req :
    req[r].method = "POST" =>
      /\ WritesAwaited(r)
      /\ \A k \in CallIndexesOf(r, "ListParticipants") :
           \A id \in ConflictingIds(r) : DeleteAnsweredBefore(r, id, k)
      /\ AnyOrder(r)

\* C29 as amended: the participants are listed once, second of all calls,
\* after the first listing of the dispatches and before any delete is
\* issued; the rest as stated.
C29_OrderingAmended ==
  \A r \in DOMAIN req :
    req[r].method = "POST" =>
      /\ WritesAwaited(r)
      /\ CallIndexesOf(r, "ListParticipants") \subseteq {2}
      /\ \A j \in CallIndexesOf(r, "DeleteDispatch") \cup RelistIndexes(r) :
           2 \in CallIndexesOf(r, "ListParticipants") /\ j > 2
      /\ AnyOrder(r)

\* C29's case: a pass that deleted two foreign dispatches, the later one
\* first, then a stale one, and created.
C29_Witness ==
  \E r \in DOMAIN req :
    /\ Succeeded(r, "POST")
    /\ Cardinality(ConflictingIds(r)) = 2
    /\ Len(Deletes(r)) = 3
    /\ Deletes(r)[1].id > Deletes(r)[2].id
    /\ Len(Creates(r)) = 1


(***************************************************************************)
(* The members of a status response.                                        *)
(***************************************************************************)
\* C31: in every status response active is true exactly when a dispatch is
\* returned, the returned dispatch is a listed dispatch of the configured
\* agent, and total is the number of listed dispatches of the agent,
\* whatever their jobs and deletedAt.
C31_StatusMembers ==
  \A r \in DOMAIN req :
    Succeeded(r, "GET") =>
      /\ Response(r).active <=> Response(r).dispatch # <<>>
      /\ Response(r).dispatch # <<>> =>
           Some(req[r].allDispatches,
                LAMBDA d : d = Response(r).dispatch[1] /\ OfAgent(d))
      /\ Response(r).total = Count(req[r].allDispatches, OfAgent)

\* The same with the agent's dispatches taken as the handler takes them,
\* by the configured name letter for letter.
StatusMembersAsCoded ==
  \A r \in DOMAIN req :
    Succeeded(r, "GET") =>
      /\ Response(r).active <=> Response(r).dispatch # <<>>
      /\ Response(r).dispatch # <<>> =>
           Some(req[r].allDispatches,
                LAMBDA d : d = Response(r).dispatch[1] /\ NamedAsAgent(d))
      /\ Response(r).total = Count(req[r].allDispatches, NamedAsAgent)


(***************************************************************************)
(* Job statuses by number and by name: one status or ensure-active request  *)
(* on a room whose only dispatch has an earlier and a later job, each with  *)
(* a status given as a number, as a name, or as something else.             *)
(***************************************************************************)
StatusForms ==
  { Absent, Num(0), Num(1), Num(2), Num(3), Num(4),
    Str(JS_PENDING), Str(<<"j", "s", "_", "r", "u", "n", "n", "i", "n", "g", " ">>),
    Str(<<" ", "J", "s", "_", "S", "u", "c", "c", "e", "s", "s">>),
    Str(<<" ", "j", "s", "_", "f", "a", "i", "l", "e", "d", " ">>),
    Str(<<"R", "U", "N", "N", "I", "N", "G">>), Str(<<"3">>), Str(<<>>) }

InitForms ==
  /\ \E earlier \in StatusForms, later \in StatusForms :
       dispatches = OneDispatch(<<JobState(earlier, Detail("1"), At(1)),
                                  JobState(later, Detail("2"), At(2))>>)
  /\ participants = {}
  /\ req = [r \in {"r1"} |-> IdleRequest]
  /\ prev = NoPrev
  /\ orphans = {}
  /\ faults = 0

NextForms ==
  \/ StartStatusOrEnsure
  \/ StatusLists
  \/ StatusResponds
  \/ EnsureLists
  \/ EnsureListsParticipants
  \/ EnsureRelists
  \/ UpstreamDeletes
  \/ EnsureCreates

SpecForms == InitForms /\ [][NextForms]_vars

\* The numeric code of a status: that of its name when it is one of the
\* four names, whatever the letter case and the blanks around it; a value
\* that is no status has none.
CodeOf(st) ==
  LET name == IF st.t = "str" THEN ToUpperCase(Trim(st.s)) ELSE <<>> IN
    CASE st.t = "num" /\ st.n \in 0..3 -> st
      [] st.t = "str" /\ name = JS_PENDING -> Num(0)
      [] st.t = "str" /\ name = JS_RUNNING -> Num(1)
      [] st.t = "str" /\ name = JS_SUCCESS -> Num(2)
      [] st.t = "str" /\ name = JS_FAILED -> Num(3)
      [] OTHER -> Absent

\* The dispatches with every job status written as its code.
ByCode(all) ==
  [i \in 1..Len(all) |->
     [all[i] EXCEPT !.jobs = [k \in 1..Len(all[i].jobs) |->
                                [all[i].jobs[k] EXCEPT !.status = CodeOf(@)]]]]

NoStatusAmong(all) ==
  \A i \in 1..Len(all) : \A k \in 1..Len(all[i].jobs) :
    CodeOf(all[i].jobs[k].status) = Absent

C32_WitnessActive ==
  \E r \in DOMAIN req :
    /\ Succeeded(r, "POST") /\ Response(r).reused
    /\ req[r].existing[1].jobs[1].status = Num(4)
    /\ req[r].existing[1].jobs[2].status.t = "str"


(***************************************************************************)
(* What release leaves alone.                                               *)
(***************************************************************************)
\* The room holds as many records with d's id and agent name as were listed.
StillHeld(r, d) ==
  Count(dispatches, LAMBDA e : e.id = d.id /\ e.agentName = d.agentName)
    = Count(req[r].allDispatches, LAMBDA e : e.id = d.id /\ e.agentName = d.agentName)

\* C33: a release request has issued DeleteDispatch only for listed
\* dispatches of the configured agent that have an id; the listed dispatches
\* of other agents and those without id are still in the room; it has issued
\* no CreateDispatch.
C33_ReleaseFrame ==
  \A r \in DOMAIN req :
    req[r].method = "DELETE" =>
      /\ \A i \in 1..Len(Deletes(r)) :
           /\ Deletes(r)[i].id # 0
           /\ Some(req[r].allDispatches,
                   LAMBDA d : d.id = Deletes(r)[i].id /\ OfAgent(d))
      /\ \A i \in 1..Len(req[r].allDispatches) :
           (~OfAgent(req[r].allDispatches[i]) \/ req[r].allDispatches[i].id = 0)
             => StillHeld(r, req[r].allDispatches[i])
      /\ Creates(r) = <<>>

\* C33's case: a release that deleted the agent's one dispatch with an id,
\* named in another letter case, and left the agent's dispatch without id
\* and another agent's dispatch.
C33_Witness ==
  \E r \in DOMAIN req :
    /\ Succeeded(r, "DELETE")
    /\ Len(req[r].allDispatches) = 3
    /\ Len(Deletes(r)) = 1
    /\ Some(dispatches, OfOtherAgent)
    /\ Some(dispatches, LAMBDA d : OfAgent(d) /\ d.id = 0)
    /\ ~Some(dispatches, LAMBDA d : OfAgent(d) /\ d.id # 0)


(***************************************************************************)
(* The LLM token asked of ensure-active.                                    *)
(***************************************************************************)
\* An ensure-active request that names a room in a JSON body.
EnsureFor(request) ==
  /\ request.method = "POST" /\ request.bodyJson
  /\ Includes(request.contentType, APPLICATION_JSON)
  /\ request.bodyRoom.t = "str" /\ request.bodyRoom.s # <<>>

\* The request's metadata is the text of a JSON object whose member
\* gemini_api_key is a string that is not blank.
HoldsKey(request) ==
  /\ request.bodyMetadata.t = "str"
  /\ LET text == Trim(request.bodyMetadata.s) IN
       /\ Len(text) = 5
       /\ text[1] = "{" /\ text[2] = GEMINI_KEY /\ text[3] = ":" /\ text[5] = "}"
       /\ JsonStringValue(text[4]) # <<>>
       /\ Trim(JsonStringValue(text[4])[1]) # <<>>

TokenOptional(r) ==
  Trim(req[r].request.bodyRoom.s) \in TokenlessRooms(req[r].env)

\* C34: with configuration complete, an ensure-active request for a room
\* that is neither the default room, the demo room nor "demo-room", whose
\* metadata holds no gemini_api_key, has ended with 400 and no upstream
\* call; one for such a room has gone on to the reconciliation, key or not.
C34_TokenGate ==
  \A r \in DOMAIN req :
    (Arrived(r) /\ ConfigurationComplete(req[r].env) /\ EnsureFor(req[r].request))
      => IF ~TokenOptional(r) /\ ~HoldsKey(req[r].request)
           THEN /\ Done(r) /\ Response(r).code = 400
                /\ Response(r).text = TOKEN_REQUIRED
                /\ req[r].calls = <<>>
         ELSE IF TokenOptional(r)
           THEN /\ req[r].signed
                /\ Done(r) => Response(r).code = 200 /\ req[r].calls # <<>>
         ELSE TRUE

\* C34's case: a request for an ordinary room whose metadata holds a blank
\* gemini_api_key was refused.
C34_Witness ==
  \E r \in DOMAIN req :
    /\ Finished(r, "POST") /\ ConfigurationComplete(req[r].env)
    /\ EnsureFor(req[r].request) /\ ~TokenOptional(r)
    /\ req[r].request.bodyMetadata = Str(KeyedMetadata("\" \""))
    /\ Response(r).code = 400

\* A request for the demo room without metadata went through.
C34_WitnessOptional ==
  \E r \in DOMAIN req :
    /\ Succeeded(r, "POST") /\ EnsureFor(req[r].request)
    /\ Trim(req[r].request.bodyRoom.s) = DEMO_ROOM
    /\ req[r].request.bodyMetadata = Absent
    /\ req[r].calls # <<>>


(***************************************************************************)
(* Failures in the middle of an ensure-active pass.                         *)
(***************************************************************************)
\* A call that was answered with success, or a delete answered "not found".
Effective(c) == (c.st >= 200 /\ c.st <= 299) \/ (c.op = "DeleteDispatch" /\ c.st = 404)

\* No dispatch that a delete of the request has removed (the upstream
\* answered it with success) is held.
StaysDeleted(r) ==
  \A i \in CallIndexesOf(r, "DeleteDispatch") :
    (req[r].calls[i].st >= 200 /\ req[r].calls[i].st <= 299) =>
      ~Some(dispatches, LAMBDA d : d.id = req[r].calls[i].id)

\* C35: an ensure-active pass whose CreateDispatch failed has answered 502
\* with that call its last, and a pass one of whose deletes failed has
\* answered 502 without issuing a CreateDispatch; in both, the dispatches
\* whose delete was answered before are still gone.
C35_NoCompensation ==
  \A r \in DOMAIN req :
    req[r].method = "POST" =>
      /\ StaysDeleted(r)
      /\ \A i \in CallIndexesOf(r, "CreateDispatch") :
           ~Effective(req[r].calls[i]) =>
             /\ Done(r) /\ Response(r).code = 502
             /\ i = Len(req[r].calls)
      /\ \A i \in CallIndexesOf(r, "DeleteDispatch") :
           ~Effective(req[r].calls[i]) =>
             /\ Done(r) /\ Response(r).code = 502
             /\ i = Len(req[r].calls)
             /\ Creates(r) = <<>>

\* C35's case: after two deletes the CreateDispatch failed and the room is
\* left without dispatch.
C35_Witness ==
  \E r \in DOMAIN req :
    /\ Finished(r, "POST") /\ Response(r).code = 502
    /\ Len(Deletes(r)) = 2
    /\ Deletes(r)[1].st = 200 /\ Deletes(r)[2].st = 200
    /\ LastCall(r).op = "CreateDispatch"
    /\ dispatches = <<>>

\* A delete failed after another of the same pass had been answered.
C35_WitnessDelete ==
  \E r \in DOMAIN req :
    /\ Finished(r, "POST") /\ Response(r).code = 502
    /\ Len(Deletes(r)) = 2
    /\ Deletes(r)[1].st = 200 /\ ~Effective(Deletes(r)[2])
    /\ Len(dispatches) = 1


(***************************************************************************)
(* The order of the calls of one release.                                   *)
(***************************************************************************)
\* The calls of a release that concern participants.
ParticipantCalls(r) ==
  CallIndexesOf(r, "ListParticipants") \cup CallIndexesOf(r, "RemoveParticipant")

\* The DeleteDispatch for id was answered, with success or "not found",
\* before the call at position k.
DeleteSettledBefore(r, id, k) ==
  \E j \in CallIndexesOf(r, "DeleteDispatch") :
    /\ req[r].calls[j].id = id /\ j < k
    /\ Effective(req[r].calls[j])

\* C36: in a release the participants are looked up and removed only after
\* every DeleteDispatch of the pass has been answered with success or "not
\* found", the removals after the lookup; a release one of whose deletes was
\* answered with another status has looked up and removed no participant
\* and has ended with 502.
C36_ReleaseOrder ==
  \A r \in DOMAIN req :
    req[r].method = "DELETE" =>
      /\ \A k \in ParticipantCalls(r) :
           \A id \in IdsOf(req[r].matches) : DeleteSettledBefore(r, id, k)
      /\ \A k \in CallIndexesOf(r, "RemoveParticipant") :
           \E j \in CallIndexesOf(r, "ListParticipants") : j < k
      /\ \A i \in CallIndexesOf(r, "DeleteDispatch") :
           ~Effective(req[r].calls[i]) =>
             /\ Done(r) /\ Response(r).code = 502
             /\ ParticipantCalls(r) = {}
             /\ req[r].kicks = {}

\* C36's case: a release whose two deletes were answered, one of them "not
\* found", before it looked up the participants and removed one.
C36_Witness ==
  \E r \in DOMAIN req :
    /\ Succeeded(r, "DELETE")
    /\ Len(Deletes(r)) = 2
    /\ \E i \in 1..2 : Deletes(r)[i].st = 404
    /\ Len(CallsOf(r, "RemoveParticipant")) >= 1

\* A release ended by a failed delete.
C36_WitnessFailed ==
  \E r \in DOMAIN req :
    /\ Finished(r, "DELETE") /\ Response(r).code = 502
    /\ LastCall(r).op = "DeleteDispatch"
    /\ \E p \in participants : AgentParticipant(p)


(***************************************************************************)
(* The client (App): the agent control of one connected page.              *)
(*   req["app"] holds the component's state: credentials, agentStatus,     *)
(*   pauseRequestedRef, the agent participant the room component sees, and *)
(*   the requests under way (net).  A request is "sent" until the function *)
(*   serves it and "answered" until the page receives the response.        *)
(*   Identical requests under way are served and received together.        *)
(*   dispatches and participants are the room at the upstream; the         *)
(*   function serves a request in one step.                                *)
(***************************************************************************)
\* The most requests the page has under way at once.
MaxInFlight == 2

\* The failed exchanges of one behaviour.
MaxClientFaults == 1

\* A request as sent.
Fetch(kind, from) ==
  [kind |-> kind, from |-> from, phase |-> "sent", ok |-> FALSE,
   active |-> FALSE, agentPresent |-> FALSE, error |-> FALSE]

IdleApp ==
  [pc |-> "app", credentials |-> FALSE, agentStatus |-> "idle",
   pauseRequestedRef |-> FALSE, agentParticipant |-> FALSE, net |-> {},
   by |-> "none", trail |-> <<>>, pauseOutcome |-> "none"]

App == req["app"]

SetApp(c) == req' = [req EXCEPT !["app"] = c]

HasRoom(c, n) == Cardinality(c.net) + n <= MaxInFlight

Send(c, kind, from) == [c EXCEPT !.net = @ \cup {Fetch(kind, from)}]

\* The statuses since pause was last pressed, kept until the pause is
\* settled: until the status is 'paused', or has been 'active' or 'idle'.
\* Inviting, resuming, leaving and disconnecting end the record.
Settled(trail) ==
  \E i \in 1..Len(trail) : trail[i] \in {"paused", "active", "idle"}

Trailed(trail, status) ==
  IF trail = <<>> \/ Settled(trail) THEN trail ELSE Append(trail, status)

\* useEffect (status polling): without credentials the status is reset; while
\* paused nothing is started; otherwise poll() runs at once.

pollingEffect(c) ==
  IF ~c.credentials
    THEN [c EXCEPT !.agentStatus = "idle", !.pauseRequestedRef = FALSE,
                   !.trail = Trailed(@, "idle")]
  ELSE IF c.agentStatus = "paused" THEN c
  ELSE Send(c, "GET", "poll")

\* useEffect (pauseRequestedRef reset)

flagEffect(c) ==
  IF c.agentStatus # "paused" /\ c.pauseRequestedRef /\ c.agentStatus # "requesting"
    THEN [c EXCEPT !.pauseRequestedRef = FALSE]
  ELSE c

\* setAgentStatus(status) by a handler, and the effects of the render that
\* follows when the status changed.
Rendered(c, status, by) ==
  IF status = c.agentStatus THEN [c EXCEPT !.by = by]
  ELSE flagEffect(pollingEffect([c EXCEPT !.agentStatus = status, !.by = by,
                                          !.trail = Trailed(@, status)]))

\* handleSubmit, the token received: setCredentials(tokenResp)
handleSubmit ==
  LET c == [App EXCEPT !.credentials = TRUE,
                       !.agentStatus = IF @ = "error" THEN "idle" ELSE @,
                       !.by = "submit"]
  IN /\ ~App.credentials
     /\ HasRoom(App, 1)
     /\ SetApp(flagEffect(pollingEffect(c)))
     /\ UNCHANGED <<dispatches, participants, prev, orphans, faults>>

\* window.setInterval(() => { void fetchAgentStatus(); }, 5000)
PollTick ==
  /\ App.credentials /\ App.agentStatus # "paused"
  /\ HasRoom(App, 1)
  /\ Fetch("GET", "poll") \notin App.net
  /\ SetApp(Send(App, "GET", "poll"))
  /\ UNCHANGED <<dispatches, participants, prev, orphans, faults>>

\* fetchAgentStatus, from the response on.

fetchAgentStatus(c, m) ==
  IF ~m.ok THEN Rendered(c, "error", "fetch")
  ELSE IF m.error THEN Rendered(c, "error", "fetch")
  ELSE IF c.pauseRequestedRef /\ ~m.active THEN Rendered(c, "paused", "fetch")
  ELSE IF ~m.active /\ ~m.agentPresent /\ c.pauseRequestedRef
    THEN Rendered(c, "paused", "fetch")
  ELSE Rendered(c, IF m.active \/ m.agentPresent THEN "active" ELSE "idle", "fetch")

Received(m) == [App EXCEPT !.net = @ \ {m}]

StatusReceived ==
  \E m \in App.net :
    /\ m.kind = "GET" /\ m.phase = "answered"
    /\ SetApp(fetchAgentStatus(Received(m), m))
    /\ UNCHANGED <<dispatches, participants, prev, orphans, faults>>

\* ensureAgentActive(mode), up to the request.
ensureAgentActive(mode) ==
  /\ App.credentials
  /\ ~(mode = "invite" /\ App.agentStatus \in {"active", "paused"})
  /\ HasRoom(App, 2)
  /\ SetApp(Send(Rendered([App EXCEPT !.pauseRequestedRef = FALSE,
                                      !.trail = <<>>,
                                      !.pauseOutcome = "none"],
                          "requesting", mode),
                 "POST", "ensure"))
  /\ UNCHANGED <<dispatches, participants, prev, orphans, faults>>

\* handleRequestAgent: the invite control, shown while idle or in error.
handleRequestAgent ==
  /\ App.agentStatus \in {"idle", "error"}
  /\ ensureAgentActive("invite")

\* ensureAgentActive, from the response on.
EnsureReceived ==
  \E m \in App.net :
    /\ m.kind = "POST" /\ m.phase = "answered"
    /\ SetApp(IF ~m.ok THEN Rendered(Received(m), "error", "ensure")
              ELSE IF m.agentPresent /\ m.active
                THEN [Rendered(Received(m), "active", "ensure")
                        EXCEPT !.pauseRequestedRef = FALSE]
              ELSE Received(m))
    /\ UNCHANGED <<dispatches, participants, prev, orphans, faults>>

\* handleToggleAgentListening while 'active': the pause, up to the request.


PausePressed ==
  LET c == Send([App EXCEPT !.pauseRequestedRef = TRUE,
                            !.pauseOutcome = "sent"],
                "DELETE", "pause")
  IN /\ App.credentials /\ App.agentStatus = "active"
     /\ HasRoom(App, 2)
     /\ SetApp(flagEffect(pollingEffect(
                 [c EXCEPT !.agentStatus = "requesting", !.by = "pause",
                           !.trail = <<"requesting">>])))
     /\ UNCHANGED <<dispatches, participants, prev, orphans, faults>>

\* handleToggleAgentListening
handleToggleAgentListening ==
  \/ /\ App.agentStatus = "paused"
     /\ ensureAgentActive("resume")
  \/ PausePressed

\* handleToggleAgentListening, from the response of the DELETE on.
PauseReceived ==
  \E m \in App.net :
    /\ m.kind = "DELETE" /\ m.from = "pause" /\ m.phase = "answered"
    /\ SetApp(IF m.ok
                THEN Send([Received(m) EXCEPT !.pauseOutcome = "ok"],
                          "GET", "pause")
              ELSE Rendered([Received(m) EXCEPT !.pauseRequestedRef = FALSE,
                                                !.pauseOutcome = "failed"],
                            "error", "pauseFailed"))
    /\ UNCHANGED <<dispatches, participants, prev, orphans, faults>>

\* handleDisconnect: the room connection ended.
handleDisconnect ==
  /\ App.credentials
  /\ HasRoom(App, 1)
  /\ SetApp(Send(Rendered([App EXCEPT !.credentials = FALSE,
                                      !.pauseRequestedRef = FALSE,
                                      !.agentParticipant = FALSE,
                                      !.trail = <<>>,
                                      !.pauseOutcome = "none"],
                          "idle", "disconnect"),
                 "DELETE", "clear"))
  /\ UNCHANGED <<dispatches, participants, prev, orphans, faults>>

\* onLeave: the user leaves the room.
onLeave ==
  /\ App.credentials
  /\ SetApp(pollingEffect(Rendered([App EXCEPT !.credentials = FALSE,
                                               !.agentParticipant = FALSE,
                                               !.trail = <<>>,
                                               !.pauseOutcome = "none"],
                                   "idle", "leave")))
  /\ UNCHANGED <<dispatches, participants, prev, orphans, faults>>

\* clearAgentDispatch, from the response on; 404 counts as success.
ClearReceived ==
  \E m \in App.net :
    /\ m.kind = "DELETE" /\ m.from = "clear" /\ m.phase = "answered"
    /\ SetApp(IF m.ok
                THEN [Rendered(Received(m), "idle", "clear")
                        EXCEPT !.pauseRequestedRef = FALSE]
              ELSE Received(m))
    /\ UNCHANGED <<dispatches, participants, prev, orphans, faults>>

\* The agent test of the room.
AgentInRoom == \E p \in participants : IsAgentParticipant(p, AgentName)

\* handleAgentPresenceChange(present): the room component sees the agent
\* participant appear or go.
handleAgentPresenceChange ==
  LET present == AgentInRoom
      c == [App EXCEPT !.agentParticipant = present]
  IN /\ App.credentials
     /\ App.agentParticipant # present
     /\ HasRoom(App, 1)
     /\ SetApp(IF present THEN Rendered(c, "active", "presence")
               ELSE IF App.agentStatus = "active"
                 THEN Rendered(c, "idle", "presence")
               ELSE c)
     /\ UNCHANGED <<dispatches, participants, prev, orphans, faults>>

(***************************************************************************)
(* The function serving the page's requests, each in one step.             *)
(***************************************************************************)
Served(m, ok, active, agentPresent, error) ==
  SetApp([App EXCEPT !.net = (@ \ {m}) \cup
            {[m EXCEPT !.phase = "answered", !.ok = ok, !.active = active,
                       !.agentPresent = agentPresent, !.error = error]}])

OursOf(all) == FilterSeq(all, LAMBDA d : d.agentName = AgentName)

\* GET
ServeStatus ==
  \E m \in App.net :
    /\ m.kind = "GET" /\ m.phase = "sent"
    /\ Served(m, TRUE, FindFirst(OursOf(dispatches), isActiveDispatch) # <<>>,
              AgentInRoom, extractDispatchError(OursOf(dispatches)) # <<>>)
    /\ UNCHANGED <<dispatches, participants, prev, orphans, faults>>

\* POST: reuse an active dispatch or a present agent, else create.
ServeEnsure ==
  \E m \in App.net :
    LET existing == FilterSeq(dispatches, LAMBDA d :
                      normalizeAgentName(d.agentName) = normalizeAgentName(AgentName))
        reuse == FindFirst(existing, isActiveDispatch) # <<>> \/ AgentInRoom
    IN /\ m.kind = "POST" /\ m.phase = "sent"
       /\ Served(m, TRUE, TRUE, AgentInRoom, FALSE)
       /\ dispatches' = IF reuse THEN dispatches
                        ELSE <<Dispatch(1, AgentName, Absent, <<>>)>>
       /\ UNCHANGED <<participants, prev, orphans, faults>>

\* DELETE: removeAgentDispatch
ServeRelease ==
  \E m \in App.net :
    /\ m.kind = "DELETE" /\ m.phase = "sent"
    /\ Served(m, TRUE, FALSE, FALSE, FALSE)
    /\ dispatches' = FilterSeq(dispatches, LAMBDA d :
                       ~(normalizeAgentName(d.agentName) = normalizeAgentName(AgentName)
                         /\ d.id # 0))
    /\ participants' = {p \in participants : ~IsAgentParticipantRelease(p, AgentName)}
    /\ UNCHANGED <<prev, orphans, faults>>

\* A request fails: the network, or an answer that is not ok.
ExchangeFails ==
  \E m \in App.net :
    /\ m.phase = "sent"
    /\ faults > 0
    /\ faults' = faults - 1
    /\ Served(m, FALSE, FALSE, FALSE, FALSE)
    /\ UNCHANGED <<dispatches, participants, prev, orphans>>

\* The upstream gives the dispatch a job.
AgentJobStarts == \E job \in {Job(Num(1))} : StartJob(1, job)

\* The agent of an active dispatch joins the room.
AgentJoins ==
  /\ FindFirst(dispatches, isActiveDispatch) # <<>>
  /\ ~AgentInRoom
  /\ participants' = participants \cup {AgentName}
  /\ UNCHANGED <<dispatches, req, prev, orphans, faults>>

InitClient ==
  /\ \E live \in BOOLEAN :
       /\ dispatches = IF live THEN <<Dispatch(1, AgentName, Absent, <<Job(Num(1))>>)>>
                       ELSE <<>>
       /\ participants = IF live THEN {AgentName, HumanIdentity} ELSE {HumanIdentity}
  /\ req = [r \in {"app"} |-> IdleApp]
  /\ prev = NoPrev
  /\ orphans = {}
  /\ faults = MaxClientFaults

NextClient ==
  \/ handleSubmit
  \/ PollTick
  \/ StatusReceived
  \/ handleRequestAgent
  \/ handleToggleAgentListening
  \/ EnsureReceived
  \/ PauseReceived
  \/ handleDisconnect
  \/ onLeave
  \/ ClearReceived
  \/ handleAgentPresenceChange
  \/ ServeStatus
  \/ ServeEnsure
  \/ ServeRelease
  \/ ExchangeFails
  \/ AgentJobStarts
  \/ AgentJoins

SpecClient == InitClient /\ [][NextClient]_vars

(***************************************************************************)
(* The client's pause.                                                      *)
(***************************************************************************)
\* The pause's DELETE is under way.
PauseUnderWay ==
  \E m \in App.net : m.kind = "DELETE" /\ m.from = "pause"

\* Since pause was pressed the status has been 'active' or 'idle' without
\* having been 'paused' before.
Strayed ==
  \E i \in 1..Len(App.trail) :
    /\ App.trail[i] \in {"active", "idle"}
    /\ \A j \in 1..(i - 1) : App.trail[j] # "paused"

\* C37: pressing pause while 'active' sets 'requesting' and sends the
\* DELETE; when the DELETE succeeded the status does not return to 'active'
\* or 'idle' before it is 'paused'; when it failed the status is 'error' and
\* the pause-requested flag is cleared.
C37_Pause ==
  /\ App.by = "pause" /\ App.pauseOutcome = "sent"
       => App.agentStatus = "requesting" /\ PauseUnderWay
  /\ App.pauseOutcome = "ok" => ~Strayed
  /\ App.credentials /\ App.by = "pauseFailed"
       => App.agentStatus = "error" /\ ~App.pauseRequestedRef

\* What holds of the pause as coded: the press and the failure are as
\* stated, and 'paused' is only ever shown with the flag set, on a connected
\* page.
PauseAsCoded ==
  /\ App.by = "pause" /\ App.pauseOutcome = "sent"
       => App.agentStatus = "requesting" /\ PauseUnderWay
  /\ App.credentials /\ App.by = "pauseFailed"
       => App.agentStatus = "error" /\ ~App.pauseRequestedRef
  /\ App.agentStatus = "paused" => App.pauseRequestedRef /\ App.credentials

\* The pause lost to a poll: the DELETE succeeded, no exchange failed, and
\* the status has been 'active' since the press.
PauseLostToPoll ==
  /\ App.pauseOutcome = "ok" /\ Strayed
  /\ faults = MaxClientFaults
  /\ ~App.agentParticipant

\* A status poll started by this step.
PollStarted ==
  \E m \in App'.net \ App.net :
    m.kind = "GET" /\ m.from = "poll" /\ m.phase = "sent"

\* C38: once 'paused' the status stays 'paused' until resume, leave or
\* disconnect: no poll is started while paused, and nothing else moves the
\* status to 'active' or 'idle'.
C38_PausedStays ==
  [][App.agentStatus = "paused" =>
       /\ App'.agentStatus \in {"active", "idle"}
            => App'.by \in {"leave", "disconnect", "clear"}
       /\ App'.agentStatus = "paused" => ~PollStarted]_vars

\* What holds of 'paused' as coded: no poll is started while paused, and the
\* status leaves 'paused' by resume, leave, disconnect, a status response or
\* an agent-presence event.
PausedAsCoded ==
  [][App.agentStatus = "paused" =>
       /\ App'.agentStatus # "paused"
            => App'.by \in {"resume", "leave", "disconnect", "clear",
                            "fetch", "presence"}
       /\ App'.agentStatus = "paused" => ~PollStarted]_vars

====
